---- MODULE Spec2Model ----
(***************************************************************************)
(* Review analytics engine: the DataLoader cleaning pipeline (src/load.py) *)
(* and the ReviewAnalyzer classification / aggregation / priority ranking *)
(* (src/analysis.py), with the lexicons and options of src/config.py.      *)
(*                                                                         *)
(* Numbers.  A rating is kept as an integer number of 1/Scale points, so   *)
(* that the median (halves), the linearly interpolated quartiles           *)
(* (quarters) and 1.5 * IQR (halves again) are exact.  NaN is the null     *)
(* rating; every comparison with NaN is false, as in IEEE arithmetic.      *)
(* pandas semantics are those of pandas 1.x / 2.x (in-place fillna on a    *)
(* column selection updates the frame; assigning a float to an integer     *)
(* column upcasts it).                                                     *)
(***************************************************************************)
EXTENDS Integers, Sequences, FiniteSets, TLC

VARIABLES
    csv,        \* the file at DATA_PATH: NoFile, or [columns, rows] of raw cells
    df,         \* DataLoader.df: None, or [columns, rows]
    pc,         \* position of the running DataLoader.get_clean_data call
    valid,      \* what validate_schema returned (get_clean_data ignores it)
    err,        \* the exception get_clean_data raised, "" when none
    clean,      \* the record set get_clean_data returned, None before
    call,       \* the DataLoader method the caller last called, "" before
    raw,        \* the caller's view of the object load_data handed it, None
                \* while the caller holds none
    applied,    \* the DataLoader steps that have run on self.df since it was
                \* loaded, in order
    config,     \* config.ANALYSIS_OPTIONS, the module-level options
    available,  \* SHAP_AVAILABLE and RUPTURES_AVAILABLE of advanced_analysis.py
    caller_df,  \* the record set the caller hands to ReviewAnalyzer(df, options)
    options_arg,      \* the options argument, NoOptions when omitted
    self_df,          \* ReviewAnalyzer.df, None before construction
    options,          \* ReviewAnalyzer.options
    aspect_matches,   \* ReviewAnalyzer.aspect_matches: aspect name -> mask
    segment_matches,  \* ReviewAnalyzer.segment_matches: segment name -> mask
    negative_keyword_counts,  \* ReviewAnalyzer.negative_keyword_counts
    tie_order,        \* how this numpy build arranged the rows it has sorted
    advanced_run,     \* what the last run_advanced_analysis did
    previous,         \* what the analyze_all call before the last returned
    result,           \* what the last analysis call returned or raised
    log,              \* the steps the constructor and the analysis call made
                      \* last have started, in order
    other,            \* the second ReviewAnalyzer the caller holds, NoAnalyzer
                      \* while there is none
    main_result       \* what run.py main() returned, NotRun before

loaderVars == <<csv, df, pc, valid, err, clean, call, raw, applied>>

analyzerVars ==
    <<config, available, caller_df, options_arg, self_df, options, aspect_matches,
      segment_matches, negative_keyword_counts, tie_order, advanced_run, previous,
      result, log>>

callerVars == <<other, main_result>>

vars == <<loaderVars, analyzerVars, callerVars>>

(***************************************************************************)
(* Bounds of the model.                                                    *)
(***************************************************************************)
MaxRows == 4

MaxReviews == 3

(***************************************************************************)
(* Values.  Column names are written in ASCII: title = 제목, body = 내용,  *)
(* rating = 평점, written_at = 작성일자, evaluation = 평가,                *)
(* reviewer = 이용자, group = 구분, year = 연도, month = 월,               *)
(* quarter = 분기, sentiment = 감정, text = 통합_텍스트.                   *)
(***************************************************************************)
Scale == 2 * 4 * 2

NaN == -1

None == [columns |-> {}, rows |-> <<>>, none |-> TRUE]

NoFile == [columns |-> {}, rows |-> <<>>, nofile |-> TRUE]

NullText == <<"<NA>">>

NoOptions == [none |-> TRUE]

NoResult == [op |-> "none"]

Unsorted == [known |-> FALSE]

NoRun == [kind |-> "none"]

NoAnalyzer == [none |-> TRUE]

NotRun == [run |-> FALSE]

NaT == [year |-> NaN, month |-> NaN, quarter |-> NaN]

RATING_MIN == 1

RATING_MAX == 10

expected_columns == {"title", "body", "rating", "written_at", "evaluation", "reviewer", "group"}

text_columns == {"title", "body", "evaluation"}

(***************************************************************************)
(* Sequence helpers.                                                       *)
(***************************************************************************)
Range(s) == {s[i] : i \in DOMAIN s}

RECURSIVE SelectNonNull(_)
SelectNonNull(s) ==
    IF s = <<>> THEN <<>>
    ELSE IF Head(s) = NaN THEN SelectNonNull(Tail(s))
    ELSE <<Head(s)>> \o SelectNonNull(Tail(s))

Sorted(s) == SortSeq(s, LAMBDA a, b : a < b)

(***************************************************************************)
(* Series.astype(str).str.strip() and pd.to_numeric(errors='coerce') on a  *)
(* cell, a sequence of characters.                                         *)
(***************************************************************************)
Digits == <<"0", "1", "2", "3", "4", "5", "6", "7", "8", "9">>

DigitValue(c) == (CHOOSE i \in DOMAIN Digits : Digits[i] = c) - 1

RECURSIVE LStrip(_)
LStrip(s) == IF s # <<>> /\ Head(s) = " " THEN LStrip(Tail(s)) ELSE s

RECURSIVE RStrip(_)
RStrip(s) ==
    IF s # <<>> /\ s[Len(s)] = " " THEN RStrip(SubSeq(s, 1, Len(s) - 1)) ELSE s

Strip(s) == RStrip(LStrip(s))

RECURSIVE ToInt(_)
ToInt(s) ==
    IF s = <<>> THEN 0
    ELSE 10 * ToInt(SubSeq(s, 1, Len(s) - 1)) + DigitValue(s[Len(s)])

to_numeric(s) ==
    IF s # <<>> /\ \A i \in DOMAIN s : s[i] \in Range(Digits)
    THEN ToInt(s) * Scale
    ELSE NaN

(***************************************************************************)
(* pd.to_datetime(errors='coerce') and the .dt accessors, on the date      *)
(* cells the model draws.                                                  *)
(***************************************************************************)
KnownDates ==
    [c \in {"2022-11-20", "2023-05-01"} |->
        IF c = "2022-11-20" THEN [year |-> 2022, month |-> 11]
        ELSE [year |-> 2023, month |-> 5]]

to_datetime(c) ==
    IF c \in DOMAIN KnownDates
    THEN [year |-> KnownDates[c].year, month |-> KnownDates[c].month,
          quarter |-> ((KnownDates[c].month - 1) \div 3) + 1]
    ELSE NaT

(***************************************************************************)
(* Series.median() and Series.quantile(q) (linear interpolation), both     *)
(* over the non-null values; NaN when there is none.                       *)
(***************************************************************************)
median(ratings) ==
    LET s == Sorted(SelectNonNull(ratings))
        n == Len(s)
    IN  IF n = 0 THEN NaN
        ELSE IF n % 2 = 1 THEN s[(n + 1) \div 2]
        ELSE (s[n \div 2] + s[(n \div 2) + 1]) \div 2

\* quantile(num / 4): position (n - 1) * num / 4 in the sorted values
quantile(ratings, num) ==
    LET s == Sorted(SelectNonNull(ratings))
        n == Len(s)
        lo == ((n - 1) * num) \div 4
        fr == ((n - 1) * num) % 4
    IN  IF n = 0 THEN NaN
        ELSE IF fr = 0 THEN s[lo + 1]
        ELSE s[lo + 1] + ((s[lo + 2] - s[lo + 1]) * fr) \div 4

(***************************************************************************)
(* The preprocessing steps of DataLoader, as functions of the frame.       *)
(***************************************************************************)
Column(d, col) == [i \in DOMAIN d.rows |-> d.rows[i][col]]

SetColumn(d, col, vals) ==
    [d EXCEPT !.columns = @ \cup {col},
              !.rows = [i \in DOMAIN d.rows |->
                          [c \in (DOMAIN d.rows[i]) \cup {col} |->
                              IF c = col THEN vals[i] ELSE d.rows[i][c]]]]

\* load.py 88-92: out-of-range ratings are flagged as NaN
FlagInvalid(v) ==
    IF v # NaN /\ (v < RATING_MIN * Scale \/ v > RATING_MAX * Scale) THEN NaN ELSE v

_preprocess_ratings(d) ==
    SetColumn(d, "rating",
        [i \in DOMAIN d.rows |->
            FlagInvalid(to_numeric(Strip(Column(d, "rating")[i])))])

_preprocess_dates(d) ==
    LET parsed == [i \in DOMAIN d.rows |-> to_datetime(Column(d, "written_at")[i])]
    IN  SetColumn(
          SetColumn(
            SetColumn(
              SetColumn(d, "written_at", parsed),
              "year", [i \in DOMAIN parsed |-> parsed[i].year]),
            "month", [i \in DOMAIN parsed |-> parsed[i].month]),
          "quarter", [i \in DOMAIN parsed |-> parsed[i].quarter])

FillNa(vals, fill) ==
    [i \in DOMAIN vals |-> IF vals[i] = NaN THEN fill ELSE vals[i]]

RECURSIVE FillText(_, _)
FillText(d, cols) ==
    IF cols = {} THEN d
    ELSE LET col == CHOOSE c \in cols : TRUE
             filled == IF col \in d.columns
                       THEN SetColumn(d, col,
                              [i \in DOMAIN d.rows |->
                                  IF Column(d, col)[i] = NullText
                                  THEN <<>> ELSE Column(d, col)[i]])
                       ELSE d
         IN  FillText(filled, cols \ {col})

_handle_missing_values(d) ==
    LET ratings == Column(d, "rating")
        imputed == IF \E i \in DOMAIN ratings : ratings[i] = NaN
                   THEN SetColumn(d, "rating", FillNa(ratings, median(ratings)))
                   ELSE d
    IN  FillText(imputed, text_columns)

lower_bound(ratings) ==
    LET Q1 == quantile(ratings, 1)
        Q3 == quantile(ratings, 3)
    IN  IF Q1 = NaN THEN NaN ELSE Q1 - (3 * (Q3 - Q1)) \div 2

upper_bound(ratings) ==
    LET Q1 == quantile(ratings, 1)
        Q3 == quantile(ratings, 3)
    IN  IF Q1 = NaN THEN NaN ELSE Q3 + (3 * (Q3 - Q1)) \div 2

\* load.py 137-142: values outside the band are moved to the bound
Clamp(v, lo, hi) ==
    IF v = NaN \/ lo = NaN THEN v
    ELSE IF v < lo THEN lo
    ELSE IF v > hi THEN hi
    ELSE v

\* Mutant: the records outside the band are dropped
_handle_outliers_dropping(d) ==
    LET ratings == Column(d, "rating")
        lo == lower_bound(ratings)
        hi == upper_bound(ratings)
    IN  [d EXCEPT !.rows = SelectSeq(d.rows,
            LAMBDA row : Clamp(row["rating"], lo, hi) = row["rating"])]

_handle_outliers(d) ==
    LET ratings == Column(d, "rating")
        lo == lower_bound(ratings)
        hi == upper_bound(ratings)
    IN  SetColumn(d, "rating", [i \in DOMAIN ratings |-> Clamp(ratings[i], lo, hi)])

RECURSIVE CleanText(_, _)
CleanText(d, cols) ==
    IF cols = {} THEN d
    ELSE LET col == CHOOSE c \in cols : TRUE
             cleaned == IF col \in d.columns
                        THEN SetColumn(d, col,
                               [i \in DOMAIN d.rows |-> Strip(Column(d, col)[i])])
                        ELSE d
         IN  CleanText(cleaned, cols \ {col})

_clean_text_data(d) == CleanText(d, text_columns)

(***************************************************************************)
(* The files the model reads.  A row is a function from column name to    *)
(* raw cell; a file may lack one of the required columns, or be absent.    *)
(***************************************************************************)
RatingCells == {<<"9">>, <<"6">>, <<" ", "1">>, <<"0">>, <<"1", "1">>, <<"x">>}

RawRow(rating, written_at, title) ==
    [c \in expected_columns |->
        CASE c = "rating" -> rating
          [] c = "written_at" -> written_at
          [] c = "title" -> title
          [] c = "body" -> NullText
          [] c = "evaluation" -> <<" ">>
          [] OTHER -> <<"a">>]

RawRows ==
    {RawRow(r, "2023-05-01", <<" ", "cheong", "gyeol", " ">>) : r \in RatingCells}
    \cup {RawRow(<<"9">>, "not a date", NullText)}

MissingColumns == {{}, {"rating"}, {"written_at"}, {"title"}, {"group"}}

Restrict(row, cols) == [c \in cols |-> row[c]]

CsvFiles ==
    {NoFile} \cup
    {[columns |-> expected_columns \ m,
      rows |-> [i \in DOMAIN rows |-> Restrict(rows[i], expected_columns \ m)]] :
        m \in MissingColumns,
        rows \in UNION {[1..k -> RawRows] : k \in 0..MaxRows}}

(***************************************************************************)
(* DataLoader.  get_clean_data runs load_data, validate_schema and the     *)
(* five steps of preprocess_data in order; pc is the step about to run.    *)
(* An exception ends the call and leaves self.df as it then is.            *)
(***************************************************************************)
InitLoader ==
    /\ csv \in CsvFiles
    /\ df = None
    /\ pc = "idle"
    /\ valid = FALSE
    /\ err = ""
    /\ clean = None
    /\ call = ""
    /\ raw = None
    /\ applied = <<>>
    /\ config = NoOptions
    /\ available = [shap |-> FALSE, ruptures |-> FALSE]
    /\ caller_df = None
    /\ options_arg = NoOptions
    /\ self_df = None
    /\ options = NoOptions
    /\ aspect_matches = <<>>
    /\ segment_matches = <<>>
    /\ negative_keyword_counts = <<>>
    /\ tie_order = Unsorted
    /\ advanced_run = NoRun
    /\ previous = NoResult
    /\ result = NoResult
    /\ log = <<>>
    /\ other = NoAnalyzer
    /\ main_result = NotRun

Raise(e) ==
    /\ err' = e
    /\ pc' = "idle"

\* load.py 171-178
get_clean_data ==
    /\ pc = "idle"
    /\ err' = ""
    /\ call' = "get_clean_data"
    /\ IF df = None
       THEN /\ pc' = "load_data"
            /\ UNCHANGED <<analyzerVars, callerVars, applied, csv, df, valid, clean, raw>>
       ELSE /\ clean' = df
            /\ pc' = "idle"
            /\ UNCHANGED <<analyzerVars, callerVars, applied, csv, df, valid, raw>>

\* load.py 24-36, called by get_clean_data (load.py 174), which drops the
\* returned object
load_data ==
    /\ pc = "load_data"
    /\ IF csv = NoFile
       THEN /\ Raise("FileNotFoundError")
            /\ UNCHANGED <<analyzerVars, callerVars, applied, csv, df, valid, clean, call, raw>>
       ELSE /\ df' = csv
            /\ applied' = <<>>
            /\ pc' = "validate_schema"
            /\ UNCHANGED <<analyzerVars, callerVars, csv, valid, err, clean, call, raw>>

\* load.py 24-36, called by the caller itself: load.py 30 returns self.df, the
\* very object the loader keeps, so the caller's record set and self.df are
\* one object from here on
load_data_by_caller ==
    /\ pc = "idle"
    /\ df = None
    /\ call' = "load_data"
    /\ IF csv = NoFile
       THEN /\ err' = "FileNotFoundError"
            /\ UNCHANGED <<analyzerVars, callerVars, applied, csv, df, pc, valid, clean, raw>>
       ELSE /\ df' = csv
            /\ raw' = csv
            /\ applied' = <<>>
            /\ err' = ""
            /\ UNCHANGED <<analyzerVars, callerVars, csv, pc, valid, clean>>

\* load.py 54-59, called by the caller on the record set it has just loaded
preprocess_data ==
    /\ pc = "idle"
    /\ call = "load_data"
    /\ call' = "preprocess_data"
    /\ IF df = None
       THEN /\ err' = "ValueError"
            /\ UNCHANGED <<analyzerVars, callerVars, applied, csv, df, pc, valid, clean, raw>>
       ELSE /\ pc' = "_preprocess_ratings"
            /\ err' = ""
            /\ UNCHANGED <<analyzerVars, callerVars, applied, csv, df, valid, clean, raw>>

\* load.py 38-52, called by the caller on the record set it has just loaded
validate_schema_by_caller ==
    /\ pc = "idle"
    /\ call = "load_data"
    /\ call' = "validate_schema"
    /\ err' = ""
    /\ valid' = (df # None /\ expected_columns \ df.columns = {})
    /\ applied' = IF df = None THEN applied ELSE Append(applied, "validate_schema")
    /\ UNCHANGED <<analyzerVars, callerVars, csv, df, pc, clean, raw>>

\* load.py 38-52; the caller at load.py 175 drops the result
validate_schema ==
    /\ pc = "validate_schema"
    /\ valid' = (expected_columns \ df.columns = {})
    /\ applied' = Append(applied, "validate_schema")
    /\ pc' = "_preprocess_ratings"
    /\ UNCHANGED <<analyzerVars, callerVars, csv, df, err, clean, call, raw>>

\* A step of preprocess_data that indexes column `need`: KeyError without it.
\* Every step assigns into self.df in place (load.py 82, 97, 119, 141, 150),
\* so a caller that holds the object load_data returned sees the assignment.
Step(at, need, after, next) ==
    /\ pc = at
    /\ IF need \in df.columns
       THEN /\ df' = after
            /\ raw' = IF raw = None THEN None ELSE after
            /\ applied' = Append(applied, at)
            /\ pc' = next
            /\ UNCHANGED <<analyzerVars, callerVars, csv, valid, err, clean, call>>
       ELSE /\ Raise("KeyError")
            /\ UNCHANGED <<analyzerVars, callerVars, applied, csv, df, valid, clean, call, raw>>

preprocess_ratings ==
    Step("_preprocess_ratings", "rating", _preprocess_ratings(df), "_preprocess_dates")

preprocess_dates ==
    Step("_preprocess_dates", "written_at", _preprocess_dates(df), "_handle_missing_values")

handle_missing_values ==
    Step("_handle_missing_values", "rating", _handle_missing_values(df), "_handle_outliers")

handle_outliers ==
    Step("_handle_outliers", "rating", _handle_outliers(df), "_clean_text_data")

clean_text_data ==
    Step("_clean_text_data", "rating", _clean_text_data(df), "return")

\* load.py 176-178: preprocess_data has returned to get_clean_data, which hands
\* out self.df.copy(); load.py 77: called by the caller, preprocess_data
\* returns self.df itself
return_clean_data ==
    /\ pc = "return"
    /\ clean' = IF call = "get_clean_data" THEN df ELSE clean
    /\ pc' = "idle"
    /\ UNCHANGED <<analyzerVars, callerVars, applied, csv, df, valid, err, call, raw>>

NextLoader ==
    \/ get_clean_data
    \/ load_data
    \/ load_data_by_caller
    \/ preprocess_data
    \/ validate_schema_by_caller
    \/ validate_schema
    \/ preprocess_ratings
    \/ preprocess_dates
    \/ handle_missing_values
    \/ handle_outliers
    \/ clean_text_data
    \/ return_clean_data

SpecLoader == InitLoader /\ [][NextLoader]_vars

(***************************************************************************)
(* Claims about the cleaner (checked under SpecLoader).                    *)
(***************************************************************************)
LacksRequiredColumn == csv # NoFile /\ expected_columns \ csv.columns # {}

\* The ratings of the file after coercion and range flagging
CoercedRatings ==
    [i \in DOMAIN csv.rows |-> FlagInvalid(to_numeric(Strip(csv.rows[i]["rating"])))]

AllRatingsNull ==
    /\ csv # NoFile
    /\ "rating" \in csv.columns
    /\ csv.rows # <<>>
    /\ \A i \in DOMAIN csv.rows : CoercedRatings[i] = NaN

InRange(v) == v # NaN /\ RATING_MIN * Scale <= v /\ v <= RATING_MAX * Scale

\* The positions a call reaches only after a preprocessing step has run
AfterAPreprocessingStep ==
    {"_preprocess_dates", "_handle_missing_values", "_handle_outliers",
     "_clean_text_data", "return"}

\* C3: a file that lacks a required column makes the cleaner fail with a
\* schema error, with no partial processing: no preprocessing step runs and
\* get_clean_data hands out no record set.
C3_SchemaErrorNoPartialProcessing ==
    LacksRequiredColumn /\ call = "get_clean_data" /\ raw = None =>
        /\ pc \notin AfterAPreprocessingStep
        /\ clean = None
        /\ (pc = "idle" /\ df # None => err = "SchemaError")

\* C4: when every rating is null after coercion and range flagging, cleaning
\* fails with InsufficientDataError and returns no record set.
C4_AllNullRatingsFail ==
    AllRatingsNull /\ call = "get_clean_data" /\ raw = None =>
        /\ pc # "return"
        /\ clean = None
        /\ (pc = "idle" /\ df # None => err = "InsufficientDataError")

\* C5: every record set preprocess_data returns has only non-null ratings in
\* the closed range [1, 10].
C5_RatingsNonNullInRange ==
    pc = "return" =>
        \A i \in DOMAIN df.rows : InRange(df.rows[i]["rating"])

\* The same, over the files with at least one usable rating (what is left of
\* C5 apart from the all-null case of C4).
C5_HoldsWithUsableRating ==
    pc = "return" /\ ~AllRatingsNull =>
        \A i \in DOMAIN df.rows : InRange(df.rows[i]["rating"])

\* C6: outlier containment moves a rating above Q3 + 1.5 IQR to exactly that
\* bound, a rating below Q1 - 1.5 IQR to exactly that bound, leaves the
\* ratings inside the band alone, and preprocess_data keeps every record.
C6_ClampNeverDrops ==
    [][/\ pc = "_handle_outliers" /\ pc' = "_clean_text_data" =>
            LET before == Column(df, "rating")
                after == Column(df', "rating")
                Q1 == quantile(before, 1)
                Q3 == quantile(before, 3)
                \* bounds times two, to stay in integers
                lo2 == 2 * Q1 - 3 * (Q3 - Q1)
                hi2 == 2 * Q3 + 3 * (Q3 - Q1)
            IN  /\ Len(after) = Len(before)
                /\ \A i \in DOMAIN before :
                     IF before[i] = NaN THEN after[i] = NaN
                     ELSE /\ 2 * before[i] > hi2 => 2 * after[i] = hi2
                          /\ 2 * before[i] < lo2 => 2 * after[i] = lo2
                          /\ lo2 <= 2 * before[i] /\ 2 * before[i] <= hi2
                               => after[i] = before[i]
       /\ pc' = "return" => Len(df'.rows) = Len(csv.rows)
      ]_vars

\* A run in which a usable rating of the file was moved by the clamp
C6_Witness ==
    /\ pc = "return"
    /\ \E i \in DOMAIN df.rows :
         /\ CoercedRatings[i] # NaN
         /\ df.rows[i]["rating"] > CoercedRatings[i]
    /\ \E i \in DOMAIN df.rows :
         /\ CoercedRatings[i] # NaN
         /\ df.rows[i]["rating"] = CoercedRatings[i]

\* C20: cleaning leaves its input alone: the record set load_data handed to
\* the caller still has the columns, the number of records and the text
\* cells of the file after preprocess_data.  (The rating and date cells are
\* overwritten as well: load.py 82-85 and 97.)
C20_InputUntouched ==
    raw # None =>
        /\ raw.columns = csv.columns
        /\ Len(raw.rows) = Len(csv.rows)
        /\ \A col \in text_columns \cap csv.columns :
             Column(raw, col) = Column(csv, col)

(***************************************************************************)
(* config.py.  A text is a sequence of characters; a Hangul syllable is    *)
(* one character, written here by its romanised jamo (청결 is              *)
(* <<"cheong", "gyeol">>).  Weights are in hundredths (0.7 is 70).         *)
(* Sentiment labels: Positive = 긍정, Negative = 부정, Neutral = 중립.     *)
(***************************************************************************)
ANALYSIS_OPTIONS ==
    [enable_advanced_analysis |-> FALSE,
     sentiment_thresholds |-> [positive |-> 8 * Scale, negative |-> 6 * Scale],
     top_negative_keywords |-> 10,
     priority_score_weight |-> [negative_ratio |-> 70, mention_frequency |-> 30],
     advanced_analysis |->
        [enable_rating_prediction |-> FALSE,
         enable_topic_modeling |-> FALSE,
         enable_change_point_detection |-> FALSE]]

ASPECT_KEYWORDS ==
    <<
      \* 청결
      [name |-> "cheonggyeol",
       keywords |-> <<
          <<"cheong", "gyeol">>,  \* 청결
          <<"kkae", "kkeus">>,  \* 깨끗
          <<"deo", "reop">>,  \* 더럽
          <<"ji", "jeo", "bun">>,  \* 지저분
          <<"meon", "ji">>,  \* 먼지
          <<"ba", "dak">>,  \* 바닥
          <<"cheong", "so">>,  \* 청소
          <<"kkal", "kkeum">>,  \* 깔끔
          <<"wi", "saeng">>  \* 위생
       >>],
      \* 시설/온수
      [name |-> "siseol/onsu",
       keywords |-> <<
          <<"si", "seol">>,  \* 시설
          <<"on", "su">>,  \* 온수
          <<"sya", "wo">>,  \* 샤워
          <<"on", "do">>,  \* 온도
          <<"tta", "tteus">>,  \* 따뜻
          <<"cha", "gap">>,  \* 차갑
          <<"jam", "geum", "jang", "chi">>,  \* 잠금장치
          <<"ri", "mo", "del", "ring">>,  \* 리모델링
          <<"no", "hu">>,  \* 노후
          <<"nalk">>,  \* 낡
          <<"si", "seol">>,  \* 시설
          <<"gaek", "sil">>,  \* 객실
          <<"chim", "dae">>,  \* 침대
          <<"T", "V">>,  \* TV
          <<"nan", "bang">>,  \* 난방
          <<"e", "eo", "keon">>  \* 에어컨
       >>],
      \* 직원응대
      [name |-> "jikwoneungdae",
       keywords |-> <<
          <<"jik", "won">>,  \* 직원
          <<"eung", "dae">>,  \* 응대
          <<"seo", "bi", "seu">>,  \* 서비스
          <<"chin", "jeol">>,  \* 친절
          <<"bul", "chin", "jeol">>,  \* 불친절
          <<"tae", "do">>,  \* 태도
          <<"an", "nae">>,  \* 안내
          <<"peu", "ron", "teu">>,  \* 프론트
          <<"mae", "ni", "jeo">>,  \* 매니저
          <<"bu", "jang">>,  \* 부장
          <<"go", "mun">>,  \* 고문
          <<"gyeok", "yang">>,  \* 격양
          <<"mal", "mun", "mak", "him">>  \* 말문막힘
       >>],
      \* 가격
      [name |-> "gagyeok",
       keywords |-> <<
          <<"ga", "gyeok">>,  \* 가격
          <<"bi", "ssa">>,  \* 비싸
          <<"jeo", "ryeom">>,  \* 저렴
          <<"ga", "seong", "bi">>,  \* 가성비
          <<"yo", "geum">>,  \* 요금
          <<"bi", "yong">>,  \* 비용
          <<"pae", "ki", "ji">>,  \* 패키지
          <<"gang", "jeong">>,  \* 강정
          <<"jo", "sik">>,  \* 조식
          <<"sik", "sa">>,  \* 식사
          <<"eum", "sik">>,  \* 음식
          <<"mas", "iss">>,  \* 맛있
          <<"mas", "eops">>  \* 맛없
       >>],
      \* 온천수
      [name |-> "oncheonsu",
       keywords |-> <<
          <<"on", "cheon">>,  \* 온천
          <<"tan", "san">>,  \* 탄산
          <<"on", "cheon", "su">>,  \* 온천수
          <<"tang">>,  \* 탕
          <<"sa", "u", "na">>,  \* 사우나
          <<"jjim", "jil", "bang">>,  \* 찜질방
          <<"mok", "yok">>,  \* 목욕
          <<"on", "cheon", "yok">>,  \* 온천욕
          <<"on", "cheon", "mul">>,  \* 온천물
          <<"hyo", "neung">>,  \* 효능
          <<"pi", "ro">>,  \* 피로
          <<"hil", "ring">>,  \* 힐링
          <<"seon", "nyeo", "tang">>,  \* 선녀탕
          <<"no", "cheon", "tang">>  \* 노천탕
       >>]
    >>

SEGMENT_RULES ==
    <<
      \* 가족
      [name |-> "gajok",
       keywords |-> <<
          <<"ga", "jok">>,  \* 가족
          <<"bu", "mo", "nim">>,  \* 부모님
          <<"a", "i">>,  \* 아이
          <<"ae">>,  \* 애
          <<"eo", "rin", "i">>,  \* 어린이
          <<"ja", "nyeo">>  \* 자녀
       >>],
      \* 등산
      [name |-> "deungsan",
       keywords |-> <<
          <<"deung", "san">>,  \* 등산
          <<"teu", "re", "king">>,  \* 트레킹
          <<"san", "haeng">>,  \* 산행
          <<"seol", "ak", "san">>,  \* 설악산
          <<"ju", "jeon", "gol">>,  \* 주전골
          <<"seon", "nyeo", "tang">>,  \* 선녀탕
          <<"man", "gyeong", "dae">>  \* 만경대
       >>],
      \* 장기고객
      [name |-> "janggigogaek",
       keywords |-> <<
          <<"ja", "ju">>,  \* 자주
          <<"manh", "i">>,  \* 많이
          <<"o", "rae">>,  \* 오래
          <<"jeong", "gi">>,  \* 정기
          <<"dan", "gol">>,  \* 단골
          <<"mae", "nyeon">>,  \* 매년
          <<"bun", "gi", "ma", "da">>  \* 분기마다
       >>]
    >>

\* config.py 72-78
NEGATIVE_KEYWORDS ==
    <<
      <<"a", "swip">>,  \* 아쉽
      <<"sil", "mang">>,  \* 실망
      <<"byeol", "ro">>,  \* 별로
      <<"an", "joh">>,  \* 안좋
      <<"na", "ppeu">>,  \* 나쁘
      <<"bul", "pyeon">>,  \* 불편
      <<"mun", "je">>,  \* 문제
      <<"gyeol", "ham">>,  \* 결함
      <<"go", "jang">>,  \* 고장
      <<"bu", "jok">>,  \* 부족
      <<"tteol", "eo", "ji">>,  \* 떨어지
      <<"naj">>,  \* 낮
      <<"an", "doe">>,  \* 안되
      <<"mos", "ha">>,  \* 못하
      <<"silh">>,  \* 싫
      <<"jja", "jeung">>,  \* 짜증
      <<"hwa", "na">>,  \* 화나
      <<"bul", "kwae">>,  \* 불쾌
      <<"sil", "jong">>,  \* 실종
      <<"heo">>,  \* 허
      <<"neul", "eo", "ji">>,  \* 늘어지
      <<"tteol", "eo", "ji">>,  \* 떨어지
      <<"nalk">>,  \* 낡
      <<"o", "rae">>,  \* 오래
      <<"no", "hu">>,  \* 노후
      <<"ji", "jeo", "bun">>,  \* 지저분
      <<"deo", "reop">>,  \* 더럽
      <<"cha", "gap">>,  \* 차갑
      <<"chup">>,  \* 춥
      <<"si", "kkeu", "reop">>,  \* 시끄럽
      <<"so", "eum">>,  \* 소음
      <<"bi", "ssa">>,  \* 비싸
      <<"ba", "ga", "ji">>,  \* 바가지
      <<"bul", "chin", "jeol">>,  \* 불친절
      <<"mu", "si">>,  \* 무시
      <<"gyeok", "yang">>,  \* 격양
      <<"mal", "mun", "mak", "him">>,  \* 말문막힘
      <<"a", "swi", "wo">>,  \* 아쉬워
      <<"hu", "hoe">>,  \* 후회
      <<"da", "si", "an", "gal">>,  \* 다시안갈
      <<"chu", "cheon", "an", "ham">>  \* 추천안함
    >>

Names(lexicon) == {lexicon[i].name : i \in DOMAIN lexicon}

Keywords(lexicon, name) ==
    lexicon[CHOOSE i \in DOMAIN lexicon : lexicon[i].name = name].keywords

(***************************************************************************)
(* Rounding.  round(n / d, k) is taken on the exact quotient, ties to      *)
(* even; RoundDiv(n, d) is n / d rounded to an integer, for n >= 0, d > 0. *)
(* The floating-point round of the code differs from it only where the     *)
(* exact quotient is a tie or within an ulp of one; for the ratios and     *)
(* scores below that needs 16 or more records.                             *)
(***************************************************************************)
RoundDiv(n, d) ==
    LET q == n \div d
        r == n % d
    IN  IF 2 * r < d THEN q
        ELSE IF 2 * r > d THEN q + 1
        ELSE IF q % 2 = 0 THEN q ELSE q + 1

(***************************************************************************)
(* ReviewAnalyzer: classification (analysis.py 30-77, 171-178).            *)
(***************************************************************************)
\* Mutant: a rating equal to the positive threshold is not Positive
_label_sentiment_strictly_above(rating, thresholds) ==
    IF rating # NaN /\ rating > thresholds.positive THEN "Positive"
    ELSE IF rating # NaN /\ rating <= thresholds.negative THEN "Negative"
    ELSE "Neutral"

\* Mutant: a rating equal to the negative threshold is not Negative
_label_sentiment_strictly_below(rating, thresholds) ==
    IF rating # NaN /\ rating >= thresholds.positive THEN "Positive"
    ELSE IF rating # NaN /\ rating < thresholds.negative THEN "Negative"
    ELSE "Neutral"

\* analysis.py 171-178; a NaN rating fails both comparisons
_label_sentiment(rating, thresholds) ==
    IF rating # NaN /\ rating >= thresholds.positive THEN "Positive"
    ELSE IF rating # NaN /\ rating <= thresholds.negative THEN "Negative"
    ELSE "Neutral"

\* Mutant: the fields are joined without the separating spaces
canonical_text_unseparated(row) ==
    row["title"] \o row["body"] \o row["evaluation"]

\* analysis.py 38-42
canonical_text(row) ==
    row["title"] \o <<" ">> \o row["body"] \o <<" ">> \o row["evaluation"]

\* Python's `keyword in text`
Contains(text, keyword) ==
    \E p \in 0..(Len(text) - Len(keyword)) :
        SubSeq(text, p + 1, p + Len(keyword)) = keyword

\* analysis.py 56: any(keyword in text for keyword in keywords)
any_keyword_in(keywords, text) ==
    \E k \in DOMAIN keywords : Contains(text, keywords[k])

\* analysis.py 35-42
_preprocess_for_analysis(d, thresholds) ==
    SetColumn(
      SetColumn(d, "sentiment",
        [i \in DOMAIN d.rows |->
            _label_sentiment(Column(d, "rating")[i], thresholds)]),
      "text", [i \in DOMAIN d.rows |-> canonical_text(d.rows[i])])

\* analysis.py 52-66
keyword_matches(d, lexicon) ==
    [name \in Names(lexicon) |->
        [i \in DOMAIN d.rows |->
            any_keyword_in(Keywords(lexicon, name), Column(d, "text")[i])]]

\* analysis.py 73: ' '.join(negative_reviews['통합_텍스트'])
RECURSIVE JoinTexts(_)
JoinTexts(texts) ==
    IF texts = <<>> THEN <<>>
    ELSE IF Len(texts) = 1 THEN texts[1]
    ELSE texts[1] \o <<" ">> \o JoinTexts(Tail(texts))

\* analysis.py 75: len(re.findall(keyword, text)), the matches found left to
\* right without overlap; no keyword holds a regular-expression operator
RECURSIVE findall_count(_, _)
findall_count(keyword, text) ==
    IF Len(text) < Len(keyword) THEN 0
    ELSE IF SubSeq(text, 1, Len(keyword)) = keyword
    THEN 1 + findall_count(keyword, SubSeq(text, Len(keyword) + 1, Len(text)))
    ELSE findall_count(keyword, Tail(text))

\* Mutant: the keywords are counted over the records of any rating
negative_reviews_of_any_rating(d, thresholds) == d.rows

\* analysis.py 70: self.df[self.df['평점'] <= self.sentiment_thresholds['negative']]
negative_reviews(d, thresholds) ==
    SelectSeq(d.rows,
              LAMBDA row : row["rating"] # NaN /\ row["rating"] <= thresholds.negative)

\* analysis.py 69, 72-77: the Counter, as its entries in insertion order (a
\* keyword listed twice keeps its first place)
count_keywords(reviews) ==
    LET all_negative_text == JoinTexts([i \in DOMAIN reviews |-> reviews[i]["text"]])
        first == SelectSeq([i \in DOMAIN NEGATIVE_KEYWORDS |-> i],
                     LAMBDA i : /\ \A j \in 1..(i - 1) :
                                      NEGATIVE_KEYWORDS[j] # NEGATIVE_KEYWORDS[i]
                                /\ findall_count(NEGATIVE_KEYWORDS[i], all_negative_text) > 0)
    IN  IF reviews = <<>> THEN <<>>
        ELSE [k \in DOMAIN first |->
                [keyword |-> NEGATIVE_KEYWORDS[first[k]],
                 count |-> findall_count(NEGATIVE_KEYWORDS[first[k]], all_negative_text)]]

\* analysis.py 69-77
negative_keyword_counter(d, thresholds) ==
    count_keywords(negative_reviews(d, thresholds))

\* Counter.most_common(n): by count, largest first, equal counts in insertion
\* order, the first n
most_common(counter, n) ==
    LET rank(i) == Cardinality({j \in DOMAIN counter :
                        \/ counter[j].count > counter[i].count
                        \/ counter[j].count = counter[i].count /\ j < i})
        size == IF Len(counter) < n THEN Len(counter) ELSE n
    IN  [k \in 1..size |-> counter[CHOOSE i \in DOMAIN counter : rank(i) = k - 1]]

(***************************************************************************)
(* ReviewAnalyzer: aggregation (analysis.py 102-119, 180-249).             *)
(***************************************************************************)
\* Mutant: the records of a label are counted whether selected or not
Count_of_all(d, mask, label) ==
    Cardinality({i \in DOMAIN d.rows : d.rows[i]["sentiment"] = label})

Count(d, mask, label) ==
    Cardinality({i \in DOMAIN d.rows : mask[i] /\ d.rows[i]["sentiment"] = label})

Matched(mask) == Cardinality({i \in DOMAIN mask : mask[i]})

RECURSIVE SumRatings(_, _, _)
SumRatings(d, mask, i) ==
    IF i = 0 THEN 0
    ELSE SumRatings(d, mask, i - 1) + (IF mask[i] THEN d.rows[i]["rating"] ELSE 0)

Everyone(d) == [i \in DOMAIN d.rows |-> TRUE]

\* analysis.py 102-119: a ratio is kept as the fraction count / total
_calculate_sentiment_distribution(d) ==
    LET total == Len(d.rows)
        positive_count == Count(d, Everyone(d), "Positive")
        negative_count == Count(d, Everyone(d), "Negative")
        neutral_count == Count(d, Everyone(d), "Neutral")
    IN  IF total = 0
        THEN [op |-> "_calculate_sentiment_distribution", raised |-> "ZeroDivisionError"]
        ELSE [op |-> "_calculate_sentiment_distribution",
              positive_count |-> positive_count,
              negative_count |-> negative_count,
              neutral_count |-> neutral_count,
              positive_ratio |-> [num |-> positive_count, den |-> total],
              negative_ratio |-> [num |-> negative_count, den |-> total],
              neutral_ratio |-> [num |-> neutral_count, den |-> total]]

\* Timestamps are compared by year and month
DateKey(t) == t.year * 12 + t.month

\* Series.max() / Series.min() of 작성일자, which skip NaT; NaT when all are
Dates(d) == {d.rows[i]["written_at"] : i \in DOMAIN d.rows} \ {NaT}

MaxDate(d) ==
    IF Dates(d) = {} THEN NaT
    ELSE CHOOSE t \in Dates(d) : \A u \in Dates(d) : DateKey(u) <= DateKey(t)

MinDate(d) ==
    IF Dates(d) = {} THEN NaT
    ELSE CHOOSE t \in Dates(d) : \A u \in Dates(d) : DateKey(t) <= DateKey(u)

\* Series.mean() rounded to two decimals, in hundredths; NaN without a value
MeanRating(d, mask) ==
    LET known == [i \in DOMAIN d.rows |-> mask[i] /\ d.rows[i]["rating"] # NaN]
    IN  IF Matched(known) = 0 THEN NaN
        ELSE RoundDiv(SumRatings(d, known, Len(d.rows)) * 100, Matched(known) * Scale)

\* Series.min() and Series.max() of 평점, NaN without a value
MinRating(d) ==
    LET known == Range(SelectNonNull(Column(d, "rating")))
    IN  IF known = {} THEN NaN ELSE CHOOSE r \in known : \A q \in known : r <= q

MaxRating(d) ==
    LET known == Range(SelectNonNull(Column(d, "rating")))
    IN  IF known = {} THEN NaN ELSE CHOOSE r \in known : \A q \in known : q <= r

\* analysis.py 79-100: the dict literal is built in order, so NaT.strftime
\* (analysis.py 88) raises ValueError before the sentiment distribution is
\* reached when no record has a date, an empty record set included
calculate_kpis_result(d) ==
    IF MaxDate(d) = NaT
    THEN [op |-> "calculate_kpis", raised |-> "ValueError"]
    ELSE [op |-> "calculate_kpis",
          total |-> Len(d.rows),
          mean_rating |-> MeanRating(d, Everyone(d)),
          min_rating |-> MinRating(d),
          max_rating |-> MaxRating(d),
          latest |-> MaxDate(d),
          period |-> [start |-> MinDate(d), end |-> MaxDate(d)],
          sentiment |-> _calculate_sentiment_distribution(d)]

\* analysis.py 199-234: ratios in tenths of a percent, the mean in hundredths
_analyze_single_aspect_optimized(d, matched_mask) ==
    LET total_count == Matched(matched_mask)
        positive_count == Count(d, matched_mask, "Positive")
        negative_count == Count(d, matched_mask, "Negative")
        neutral_count == Count(d, matched_mask, "Neutral")
    IN  IF total_count = 0
        THEN [matched_count |-> 0, positive_count |-> 0, negative_count |-> 0,
              neutral_count |-> 0, positive_ratio |-> 0, negative_ratio |-> 0,
              neutral_ratio |-> 0, mean_rating |-> 0]
        ELSE [matched_count |-> total_count,
              positive_count |-> positive_count,
              negative_count |-> negative_count,
              neutral_count |-> neutral_count,
              positive_ratio |-> RoundDiv(positive_count * 1000, total_count),
              negative_ratio |-> RoundDiv(negative_count * 1000, total_count),
              neutral_ratio |-> RoundDiv(neutral_count * 1000, total_count),
              mean_rating |->
                  RoundDiv(SumRatings(d, matched_mask, Len(d.rows)) * 100,
                           total_count * Scale)]

\* analysis.py 236-249: one row per aspect, in the order of the lexicon
_summarize_aspects(aspect_results) ==
    [i \in DOMAIN ASPECT_KEYWORDS |->
        LET r == aspect_results[ASPECT_KEYWORDS[i].name]
        IN  [Aspect |-> ASPECT_KEYWORDS[i].name,
             matched_count |-> r.matched_count,
             positive_ratio |-> r.positive_ratio,
             negative_ratio |-> r.negative_ratio,
             neutral_ratio |-> r.neutral_ratio,
             mean_rating |-> r.mean_rating]]

\* analysis.py 180-197
analyze_aspects_result(d, matches) ==
    LET aspect_results ==
            [name \in Names(ASPECT_KEYWORDS) |->
                _analyze_single_aspect_optimized(d, matches[name])]
    IN  [op |-> "analyze_aspects",
         aspect_detail |-> aspect_results,
         aspect_summary |-> _summarize_aspects(aspect_results)]

(***************************************************************************)
(* ReviewAnalyzer: trends, sentiment and segments (analysis.py 121-169,    *)
(* 264-303).  groupby leaves out the records whose key is null.            *)
(***************************************************************************)
Years(d) == {d.rows[i]["year"] : i \in DOMAIN d.rows} \ {NaN}

Where(d, col, v) == [i \in DOMAIN d.rows |-> d.rows[i][col] = v]

Both(mask, second) == [i \in DOMAIN mask |-> mask[i] /\ second[i]]

\* agg({'평점': ['count', 'mean']}).round(2): count of the non-null ratings
GroupStats(d, mask) ==
    [count |-> Matched([i \in DOMAIN d.rows |-> mask[i] /\ d.rows[i]["rating"] # NaN]),
     mean |-> MeanRating(d, mask)]

\* the latest 작성일자 of the records selected by mask (a year's records all
\* carry a date)
GroupMaxDate(d, mask) ==
    LET dates == {d.rows[i]["written_at"] : i \in {j \in DOMAIN d.rows : mask[j]}}
    IN  CHOOSE t \in dates : \A u \in dates : DateKey(u) <= DateKey(t)

\* analysis.py 121-151
analyze_trends_result(d) ==
    LET by(col) == {<<d.rows[i]["year"], d.rows[i][col]>> :
                        i \in {j \in DOMAIN d.rows : d.rows[j]["year"] # NaN}}
    IN  [yearly |->
            [y \in Years(d) |->
                [stats |-> GroupStats(d, Where(d, "year", y)),
                 latest |-> GroupMaxDate(d, Where(d, "year", y))]],
         quarterly |->
            [k \in by("quarter") |->
                GroupStats(d, Both(Where(d, "year", k[1]), Where(d, "quarter", k[2])))],
         monthly |->
            [k \in by("month") |->
                GroupStats(d, Both(Where(d, "year", k[1]), Where(d, "month", k[2])))]]

\* analysis.py 153-169: value_counts lists the labels that occur
analyze_sentiment_result(d) ==
    LET labels == {d.rows[i]["sentiment"] : i \in DOMAIN d.rows}
        dated == {d.rows[i]["sentiment"] :
                     i \in {j \in DOMAIN d.rows : d.rows[j]["year"] # NaN}}
    IN  [distribution |-> [l \in labels |-> Count(d, Everyone(d), l)],
         ratio |-> [l \in labels |->
                      RoundDiv(Count(d, Everyone(d), l) * 1000, Len(d.rows))],
         trend |-> [y \in Years(d) |->
                      [l \in dated |-> Count(d, Where(d, "year", y), l)]]]

\* analysis.py 277-303
_analyze_single_segment_optimized(d, matched_mask) ==
    LET total_count == Matched(matched_mask)
    IN  IF total_count = 0
        THEN [matched_count |-> 0, mean_rating |-> 0,
              positive_ratio |-> 0, negative_ratio |-> 0]
        ELSE [matched_count |-> total_count,
              mean_rating |-> MeanRating(d, matched_mask),
              positive_ratio |->
                  RoundDiv(Count(d, matched_mask, "Positive") * 1000, total_count),
              negative_ratio |->
                  RoundDiv(Count(d, matched_mask, "Negative") * 1000, total_count)]

\* analysis.py 264-275
analyze_segments_result(d, matches) ==
    [name \in Names(SEGMENT_RULES) |->
        _analyze_single_segment_optimized(d, matches[name])]

(***************************************************************************)
(* ReviewAnalyzer: priority ranking (analysis.py 305-340).                 *)
(***************************************************************************)
\* Mutant: the two weights are swapped
priority_score_swapped_weights(row, total, weights) ==
    RoundDiv(row.negative_ratio * weights.mention_frequency * total
               + row.matched_count * 1000 * weights.negative_ratio,
             10 * total)

\* analysis.py 318-325 and 331: round(priority_score * 100, 2), in hundredths
priority_score(row, total, weights) ==
    RoundDiv(row.negative_ratio * weights.negative_ratio * total
               + row.matched_count * 1000 * weights.mention_frequency,
             10 * total)

\* analysis.py 327-333
priority_row(row, total, weights) ==
    [Aspect |-> row.Aspect,
     negative_ratio |-> row.negative_ratio,
     mention_frequency |-> RoundDiv(row.matched_count * 1000, total),
     priority_score |-> priority_score(row, total, weights),
     matched_count |-> row.matched_count]

\* Mutant: the aspects without a match are ranked too
priority_scores_unfiltered(aspect_summary, total, weights) ==
    LET kept == IF total = 0 THEN <<>> ELSE aspect_summary
    IN  [i \in DOMAIN kept |-> priority_row(kept[i], total, weights)]

\* analysis.py 314-333: the rows of the aspects with a match, in summary order
priority_scores(aspect_summary, total, weights) ==
    LET kept == SelectSeq(aspect_summary, LAMBDA row : row.matched_count > 0)
    IN  [i \in DOMAIN kept |-> priority_row(kept[i], total, weights)]

Orders(n) == {f \in [1..n -> 1..n] : \A i, j \in 1..n : i # j => f[i] # f[j]}

\* analysis.py 337: DataFrame.sort_values(by, ascending=False) with the default
\* kind='quicksort', which numpy documents as not stable: the result is some
\* arrangement of the rows with non-increasing score, and the order of rows
\* with equal scores is whatever the numpy build produces.
sort_values(rows) ==
    {[i \in DOMAIN rows |-> rows[f[i]]] : f \in
        {g \in Orders(Len(rows)) :
            \A i \in 1..(Len(rows) - 1) :
                rows[g[i]].priority_score >= rows[g[i + 1]].priority_score}}

\* Mutant: the same rows may come out in another order at every call
sort_values_afresh(rows, order) == sort_values(rows)

\* analysis.py 337 within one process: the sort is a fixed algorithm, so the
\* rows it has arranged once come out in the same arrangement again
sort_values_on_build(rows, order) ==
    IF order.known THEN {order.ranking} ELSE sort_values(rows)

(***************************************************************************)
(* AdvancedAnalyzer (advanced_analysis.py).  What a sub-analysis computes  *)
(* is kept as the keys of its result; whether it raises is decided by the  *)
(* size and the words of the record set, as scikit-learn and ruptures      *)
(* decide it.  A Hangul syllable is one character and one token here.      *)
(***************************************************************************)
\* the results dict of run_advanced_analysis, in the order the code fills it
SubAnalyses == <<"rating_prediction", "topic_modeling", "change_point_detection">>

\* an empty dict
EmptyDict == [kind |-> "empty"]

\* advanced_analysis.py 111-187.  train_test_split (127) needs two records
\* and cross_val_score(cv=5) (151) five, and fit (143) rejects a null rating:
\* ValueError otherwise.  With enough records the three models are fitted,
\* and the attribution entry is added when shap could be imported (169).
train_rating_prediction_models(d, shap_available) ==
    IF Len(d.rows) < 5 \/ \E i \in DOMAIN d.rows : d.rows[i]["rating"] = NaN
    THEN [kind |-> "raised", error |-> "ValueError"]
    ELSE [kind |-> "rating_prediction",
          keys |-> {"Linear Regression", "Ridge Regression", "Random Forest"}
                     \cup (IF shap_available THEN {"SHAP_Analysis"} ELSE {})]

\* advanced_analysis.py 197-201 (이 그 저 것 수 등 때 곳 말 일 년 월 있다 하다 되다
\* 없다 그렇다 아니다 이다)
stop_words ==
    {<<"i">>, <<"geu">>, <<"jeo">>, <<"geos">>, <<"su">>, <<"deung">>, <<"ttae">>,
     <<"gos">>, <<"mal">>, <<"il">>, <<"nyeon">>, <<"wol">>, <<"iss", "da">>,
     <<"ha", "da">>, <<"doe", "da">>, <<"eobs", "da">>, <<"geu", "reoh", "da">>,
     <<"a", "ni", "da">>, <<"i", "da">>}

\* the words of a text, split at the blanks
RECURSIVE Words(_, _)
Words(text, word) ==
    IF text = <<>> THEN (IF word = <<>> THEN <<>> ELSE <<word>>)
    ELSE IF Head(text) = " "
    THEN (IF word = <<>> THEN <<>> ELSE <<word>>) \o Words(Tail(text), <<>>)
    ELSE Words(Tail(text), Append(word, Head(text)))

\* TfidfVectorizer (204-210): tokens of two or more characters that are not
\* stop words, and with ngram_range=(1, 2) the pairs of neighbouring tokens
Terms(text) ==
    LET tokens == SelectSeq(Words(text, <<>>),
                            LAMBDA w : Len(w) >= 2 /\ w \notin stop_words)
    IN  {<<tokens[i]>> : i \in DOMAIN tokens}
          \cup {<<tokens[i], tokens[i + 1]>> : i \in 1..(Len(tokens) - 1)}

\* advanced_analysis.py 189-246.  fit_transform (212) raises ValueError when
\* the corpus has no token, when max_df = 0.95 of the documents is fewer than
\* min_df = 2 documents, and when no term is left that occurs in at least 2
\* and at most 95% of the documents.
perform_topic_modeling(d) ==
    LET n == Len(d.rows)
        terms == UNION {Terms(d.rows[i]["text"]) : i \in DOMAIN d.rows}
        freq(t) == Cardinality({i \in DOMAIN d.rows : t \in Terms(d.rows[i]["text"])})
        feature_names == {t \in terms : freq(t) >= 2 /\ 100 * freq(t) <= 95 * n}
    IN  IF terms = {} \/ 95 * n < 2 * 100 \/ feature_names = {}
        THEN [kind |-> "raised", error |-> "ValueError"]
        ELSE [kind |-> "topic_modeling", feature_names |-> feature_names]

\* advanced_analysis.py 272-273, 277: the years of the record set, ascending
SortedYears(d) ==
    [k \in 1..Cardinality(Years(d)) |->
        CHOOSE y \in Years(d) : Cardinality({z \in Years(d) : z < y}) = k - 1]

\* advanced_analysis.py 272, 276: the mean rating of each year, in hundredths
signal(d) ==
    [k \in DOMAIN SortedYears(d) |-> MeanRating(d, Where(d, "year", SortedYears(d)[k]))]

\* groupby('연도')['평점'].mean() of one year, unrounded: the sum of its
\* ratings and their number
YearMean(d, y) ==
    LET known == [i \in DOMAIN d.rows |->
                     d.rows[i]["year"] = y /\ d.rows[i]["rating"] # NaN]
    IN  [sum |-> SumRatings(d, known, Len(d.rows)), count |-> Matched(known)]

\* Pelt(model="rbf").fit(signal).predict(pen=5) for the signals of this model
\* that are long enough to be split (penalty 5: config.py 45): five years at
\* 3 then nine at 9, the same falling, and six years at 3 then eleven at 9.
\* Breakpoints are multiples of jump = 5, so the last signal is split at
\* index 5, one year before its step.
KnownSegmentations ==
    ([k \in 1..14 |-> IF k <= 5 THEN 300 ELSE 900] :> <<5, 14>>)
        @@ ([k \in 1..14 |-> IF k <= 5 THEN 900 ELSE 300] :> <<5, 14>>)
        @@ ([k \in 1..17 |-> IF k <= 6 THEN 300 ELSE 900] :> <<5, 17>>)

\* advanced_analysis.py 281-282.  min_size is 2 and jump is 5: a signal of two
\* to six samples has no admissible breakpoint, and predict returns its
\* length alone; the other record sets of this model span at most five years
predict(years_signal) ==
    IF years_signal \in DOMAIN KnownSegmentations
    THEN KnownSegmentations[years_signal]
    ELSE <<Len(years_signal)>>

\* advanced_analysis.py 284-299: cp is an index from 0; the reported values
\* are rounded to hundredths, the label is decided on the unrounded change
change_point_info(d) ==
    LET years == SortedYears(d)
        change_points == predict(signal(d))
        info(cp) ==
            LET before == YearMean(d, years[IF cp > 0 THEN cp ELSE cp + 1])
                after == YearMean(d, years[cp + 1])
                change == after.sum * before.count - before.sum * after.count
            IN  [year |-> years[cp + 1],
                 rating_before |-> RoundDiv(before.sum * 100, before.count * Scale),
                 rating_after |-> RoundDiv(after.sum * 100, after.count * Scale),
                 change |-> RoundDiv(change * 100, before.count * after.count * Scale),
                 change_type |-> IF change > 0 THEN "increase" ELSE "decrease"]
        reported == SelectSeq(SubSeq(change_points, 1, Len(change_points) - 1),
                              LAMBDA cp : cp < Len(years))
    IN  [i \in DOMAIN reported |-> info(reported[i])]

\* Mutant: the library is used without asking whether it was imported
detect_change_points_needing_ruptures(d, ruptures_available) ==
    IF ~ruptures_available \/ Cardinality(Years(d)) < 2
    THEN [kind |-> "raised", error |-> "NameError"]
    ELSE [kind |-> "change_point_detection",
          change_points |-> change_point_info(d),
          yearly_ratings |-> [y \in Years(d) |-> MeanRating(d, Where(d, "year", y))]]

\* advanced_analysis.py 263-309.  Without ruptures the method returns {}
\* (267-269).  With it, the yearly means go to Pelt(model="rbf") (281-282),
\* whose predict rejects a signal of fewer than two samples.
detect_change_points(d, ruptures_available) ==
    IF ~ruptures_available THEN EmptyDict
    ELSE IF Cardinality(Years(d)) < 2
    THEN [kind |-> "raised", error |-> "BadSegmentationParameters"]
    ELSE [kind |-> "change_point_detection",
          change_points |-> change_point_info(d),
          yearly_ratings |-> [y \in Years(d) |-> MeanRating(d, Where(d, "year", y))]]

\* what sub-analysis k does when it is reached
SubAnalysis(k, d, libraries) ==
    CASE k = 1 -> train_rating_prediction_models(d, libraries.shap)
      [] k = 2 -> perform_topic_modeling(d)
      [] k = 3 -> detect_change_points(d, libraries.ruptures)

\* advanced_analysis.py 318, 324, 329: the flags of the module-level options
Enabled(k, advanced_options) ==
    CASE k = 1 -> advanced_options.enable_rating_prediction
      [] k = 2 -> advanced_options.enable_topic_modeling
      [] k = 3 -> advanced_options.enable_change_point_detection

\* the first enabled sub-analysis that raises, 0 when none does
FirstFailure(d, advanced_options, libraries) ==
    LET failing == {k \in DOMAIN SubAnalyses :
                       /\ Enabled(k, advanced_options)
                       /\ SubAnalysis(k, d, libraries).kind = "raised"}
    IN  IF failing = {} THEN 0 ELSE CHOOSE k \in failing : \A j \in failing : k <= j

\* advanced_analysis.py 311-334: the sub-analyses run one after the other with
\* nothing to catch an exception, so the first that raises ends the run.
\* `ran` lists the sub-analyses that were started, as the log does (319, 325,
\* 330).
run_advanced_analysis(d, advanced_options, libraries) ==
    LET failed == FirstFailure(d, advanced_options, libraries)
        started == {k \in DOMAIN SubAnalyses :
                       Enabled(k, advanced_options) /\ (failed = 0 \/ k <= failed)}
    IN  IF failed = 0
        THEN [kind |-> "returned",
              results |-> [name \in {SubAnalyses[k] : k \in started} |->
                             SubAnalysis(CHOOSE k \in started : SubAnalyses[k] = name,
                                         d, libraries)],
              ran |-> {SubAnalyses[k] : k \in started}]
        ELSE [kind |-> "raised",
              error |-> SubAnalysis(failed, d, libraries).error,
              ran |-> {SubAnalyses[k] : k \in started}]

(***************************************************************************)
(* ReviewAnalyzer.analyze_all (analysis.py 342-386).                       *)
(***************************************************************************)
\* analysis.py 251-262: top_n is read from the module-level options
extract_negative_keywords(counter, module_options) ==
    most_common(counter, module_options.top_negative_keywords)

\* analysis.py 356-358
head(ranking, n) == SubSeq(ranking, 1, IF Len(ranking) < n THEN Len(ranking) ELSE n)

\* Mutant: an exception of the advanced analyzer is not caught
try_advanced_uncaught(run) ==
    IF run.kind = "returned"
    THEN [kind |-> "returned", results |-> run.results]
    ELSE [kind |-> "raised", error |-> run.error]

\* analysis.py 376-383: try / except Exception around the advanced analyzer;
\* the section is {} when it raised
try_advanced(run) ==
    IF run.kind = "returned"
    THEN [kind |-> "returned", results |-> run.results]
    ELSE [kind |-> "returned", results |-> [name \in {} |-> EmptyDict]]

\* analysis.py 347-371: the sections computed before the advanced step, given
\* the ranking sort_values produced
summary(d, opts, module_options, aspects, segments, counter, ranking) ==
    [KPI |-> calculate_kpis_result(d),
     trends |-> analyze_trends_result(d),
     sentiment |-> analyze_sentiment_result(d),
     aspects |-> analyze_aspects_result(d, aspects),
     segments |-> analyze_segments_result(d, segments),
     negative_keywords |-> extract_negative_keywords(counter, module_options),
     priority |-> [all |-> ranking, top_3 |-> head(ranking, 3)]]

\* analysis.py 373-386: the bundle, with the advanced section when
\* self.options enables it
analyze_all_result(sections, opts, run) ==
    IF ~opts.enable_advanced_analysis
    THEN [op |-> "analyze_all", summary |-> sections, advanced |-> [present |-> FALSE]]
    ELSE IF try_advanced(run).kind = "raised"
    THEN [op |-> "analyze_all", raised |-> try_advanced(run).error]
    ELSE [op |-> "analyze_all", summary |-> sections,
          advanced |-> [present |-> TRUE, results |-> try_advanced(run).results]]

(***************************************************************************)
(* The record sets and options handed to ReviewAnalyzer.                   *)
(***************************************************************************)
\* The date the records carry unless stated otherwise
Today == to_datetime("2023-05-01")

\* One record as the loader hands it over, with rating in halves of a point
Dated(rating, text, date) ==
    [c \in {"rating", "title", "body", "evaluation",
            "written_at", "year", "month", "quarter"} |->
        CASE c = "rating" -> rating * (Scale \div 2)
          [] c = "title" -> text[1]
          [] c = "body" -> text[2]
          [] c = "evaluation" -> text[3]
          [] c = "written_at" -> date
          [] c = "year" -> date.year
          [] c = "month" -> date.month
          [] c = "quarter" -> date.quarter]

Review(rating, text) == Dated(rating, text, Today)

Frame(rows) ==
    [columns |-> {"rating", "title", "body", "evaluation",
                  "written_at", "year", "month", "quarter"},
     rows |-> rows]

\* title, body, short evaluation
Irrelevant == <<<<"joh", "a", "yo">>, <<>>, <<>>>>

\* 직원 친절 (body)
Staff == <<<<>>, <<"jik", "won", " ", "chin", "jeol">>, <<>>>>

\* 가족 (title), 온천 (evaluation)
FamilySpa == <<<<"ga", "jok">>, <<>>, <<"on", "cheon">>>>

\* 깨끗 (title), 직원 (evaluation)
CleanStaff == <<<<"kkae", "kkeus">>, <<>>, <<"jik", "won">>>>

\* 청 (title), 결 (body): 청결 only across the fields
Split == <<<<"cheong">>, <<"gyeol">>, <<>>>>

\* 청결 (title)
Clean == <<<<"cheong", "gyeol">>, <<>>, <<>>>>

\* 불편 (title)
Uneasy == <<<<"bul", "pyeon">>, <<>>, <<>>>>

\* 허허 불편 (body), 실망 (evaluation)
Let_down == <<<<>>, <<"heo", "heo", " ", "bul", "pyeon">>, <<"sil", "mang">>>>

Texts == {Staff, FamilySpa, CleanStaff, Split, Irrelevant}

\* ratings in halves of a point: 3, 6, 7, 8, 9
HalfRatings == {6, 12, 14, 16, 18}

SeqsUpTo(S, n) == UNION {[1..k -> S] : k \in 0..n}

TextReviews ==
    {Review(12, Staff), Review(18, Staff), Review(18, FamilySpa),
     Review(12, CleanStaff), Review(18, Split), Review(18, Irrelevant)}

TextRich == {Frame(rows) : rows \in SeqsUpTo(TextReviews, MaxReviews - 1)}

\* the record sets analysed with weights of the caller's own
Reweighted == {Frame(rows) : rows \in SeqsUpTo(TextReviews, MaxReviews - 2)}

RatingRich ==
    {Frame(rows) :
        rows \in SeqsUpTo({Review(r, Irrelevant) : r \in HalfRatings}, MaxReviews - 1)}

\* records with negative keywords, rated 6, 7 and 8
KeywordReviews ==
    {Review(12, Uneasy), Review(14, Uneasy), Review(14, Let_down),
     Review(16, Let_down), Review(12, Irrelevant)}

KeywordRich == {Frame(rows) : rows \in SeqsUpTo(KeywordReviews, MaxReviews - 1)}

Ratings(rs) == Frame([i \in DOMAIN rs |-> Review(2 * rs[i], Irrelevant)])

\* ratings [9,9,9,3,3,6]
ExampleRatings == Ratings(<<9, 9, 9, 3, 3, 6>>)

\* 25 reviews, 5 of them about cleanliness, 2 of those 5 rated 6
ExampleAspect ==
    Frame([i \in 1..25 |->
        IF i <= 2 THEN Review(12, Clean)
        ELSE IF i <= 5 THEN Review(18, Clean)
        ELSE Review(18, Irrelevant)])

\* the record set with its first k records written a year earlier
Redated(d, k) ==
    [d EXCEPT !.rows =
        [i \in DOMAIN d.rows |->
            IF i <= k
            THEN [c \in DOMAIN d.rows[i] |->
                    CASE c = "written_at" -> to_datetime("2022-11-20")
                      [] c = "year" -> to_datetime("2022-11-20").year
                      [] c = "month" -> to_datetime("2022-11-20").month
                      [] c = "quarter" -> to_datetime("2022-11-20").quarter
                      [] OTHER -> d.rows[i][c]]
            ELSE d.rows[i]]]

\* five records with one and the same text
FiveAlike == Frame([i \in 1..5 |-> Review(IF i = 1 THEN 12 ELSE 18, Clean)])

\* three records, two of them with the same words
ThreeStaff == Frame(<<Review(12, Staff), Review(18, Staff), Review(18, CleanStaff)>>)

\* the record sets handed to an analyzer that may run the advanced analyses
AdvancedFrames ==
    {Redated(ExampleAspect, 10), Redated(FiveAlike, 2), ThreeStaff,
     Redated(ThreeStaff, 1)}

WithThresholds(low, high) ==
    [ANALYSIS_OPTIONS EXCEPT !.sentiment_thresholds =
        [positive |-> high * Scale, negative |-> low * Scale]]

WithWeights(negative, frequency) ==
    [ANALYSIS_OPTIONS EXCEPT !.priority_score_weight =
        [negative_ratio |-> negative, mention_frequency |-> frequency]]

WithTop(n) == [ANALYSIS_OPTIONS EXCEPT !.top_negative_keywords = n]

\* 청결 (title), 불편 (body), 실망 (evaluation)
Complaint == <<<<"cheong", "gyeol">>, <<"bul", "pyeon">>, <<"sil", "mang">>>>

\* record sets whose low-rated records hold two negative keywords
TwoComplaints ==
    {Frame(<<Review(12, Complaint)>>),
     Frame(<<Review(12, Complaint), Review(12, Uneasy)>>)}

\* record sets with records whose 작성일자 could not be parsed
Undated ==
    {Frame(<<Dated(18, Clean, NaT)>>),
     Frame(<<Dated(18, Clean, NaT), Dated(12, Staff, NaT)>>),
     Frame(<<Dated(18, Clean, NaT), Review(12, Clean)>>)}

\* a date in May of year y
InMay(y) == [year |-> y, month |-> 5, quarter |-> 2]

\* One record a year about 청결, n years from 2007 on: the first `low` years
\* rated `first`, the others `then`, in halves of a point
YearlySteps(first, low, then, n) ==
    Frame([i \in 1..n |->
        Dated(IF i <= low THEN first ELSE then, Clean, InMay(2006 + i))])

LongRuns ==
    {YearlySteps(6, 5, 18, 14), YearlySteps(18, 5, 6, 14), YearlySteps(6, 6, 18, 17)}

OnlyChangePoints ==
    [ANALYSIS_OPTIONS EXCEPT
        !.enable_advanced_analysis = TRUE,
        !.advanced_analysis = [enable_rating_prediction |-> FALSE,
                               enable_topic_modeling |-> FALSE,
                               enable_change_point_detection |-> TRUE]]

Flags ==
    [enable_rating_prediction : BOOLEAN,
     enable_topic_modeling : BOOLEAN,
     enable_change_point_detection : BOOLEAN]

\* options that enable or disable the advanced analysis, with flags of their own
WithAdvanced(enabled, flags) ==
    [ANALYSIS_OPTIONS EXCEPT !.enable_advanced_analysis = enabled,
                             !.advanced_analysis = flags]

\* config.py as deployed: the advanced flags edited, the rest as shipped
Configs == {WithAdvanced(enabled, flags) : enabled \in BOOLEAN, flags \in Flags}

Libraries == [shap : BOOLEAN, ruptures : BOOLEAN]

AllOn ==
    [enable_rating_prediction |-> TRUE, enable_topic_modeling |-> TRUE,
     enable_change_point_detection |-> TRUE]

\* record set, options argument, module-level options, optional libraries
AnalyzerInputs ==
    (((TextRich \X {NoOptions})
        \cup (Reweighted \X {WithWeights(50, 50)})
        \cup ((RatingRich \cup {Ratings(<<6, 7, 8>>), Ratings(<<3, 6, 9>>)})
                 \X {NoOptions, WithThresholds(3, 9)})
        \cup (KeywordRich \X {NoOptions, WithThresholds(7, 7)})
        \cup ({ExampleRatings, ExampleAspect} \X {NoOptions, WithThresholds(6, 8)})
        \cup (TwoComplaints \X {WithTop(1)})
        \cup (Undated \X {NoOptions}))
      \X {ANALYSIS_OPTIONS} \X {[shap |-> TRUE, ruptures |-> TRUE]})
    \cup ((AdvancedFrames \X {NoOptions, WithAdvanced(TRUE, AllOn)})
            \X {c \in Configs : c.enable_advanced_analysis} \X Libraries)
    \cup ((AdvancedFrames \X {WithAdvanced(TRUE, AllOn)})
            \X {ANALYSIS_OPTIONS} \X Libraries)
    \cup ((AdvancedFrames
             \X {NoOptions,
                 WithAdvanced(FALSE, [enable_rating_prediction |-> FALSE,
                                      enable_topic_modeling |-> TRUE,
                                      enable_change_point_detection |-> FALSE])})
            \X {ANALYSIS_OPTIONS, WithAdvanced(TRUE, AllOn), WithAdvanced(FALSE, AllOn)}
            \X {[shap |-> TRUE, ruptures |-> TRUE]})
    \cup ((LongRuns \X {NoOptions}) \X {OnlyChangePoints}
            \X {[shap |-> TRUE, ruptures |-> TRUE]})

(***************************************************************************)
(* The order of the steps of a run.                                        *)
(***************************************************************************)
\* analysis.py 27-77: what the constructor computes, in the order it does
ConstructorSteps ==
    <<"_label_sentiment", "aspect_matches", "segment_matches",
      "negative_keyword_counts">>

\* Mutant: the advanced analyzer runs before the ranking
AnalyzeAllSteps_advanced_first ==
    <<"calculate_kpis", "analyze_trends", "analyze_sentiment", "analyze_aspects",
      "analyze_segments", "extract_negative_keywords", "run_advanced_analysis",
      "calculate_priority_scores">>

\* analysis.py 347-377: the calls of analyze_all, in the order it makes them
AnalyzeAllSteps ==
    <<"calculate_kpis", "analyze_trends", "analyze_sentiment", "analyze_aspects",
      "analyze_segments", "extract_negative_keywords",
      "calculate_priority_scores", "run_advanced_analysis">>

\* The calls analyze_all has started when it returns or raises: each is made
\* when the one before has returned; a raising call is the last (347, 353),
\* and the advanced analyzer is built only by enabling options (374)
calls_started(kpis_raise, ranking_raises, enabled) ==
    SubSeq(AnalyzeAllSteps, 1,
           IF kpis_raise THEN 1
           ELSE IF ranking_raises THEN 7
           ELSE IF enabled THEN 8 ELSE 7)

(***************************************************************************)
(* ReviewAnalyzer actions.                                                 *)
(***************************************************************************)
\* Mutant: the analyzer keeps the caller's object, so that the columns it
\* assigns land in the caller's record set
caller_frame_shared(caller_frame, analysed) == analysed

\* analysis.py 23: self.df = df.copy().  What the caller's record set holds
\* once the constructor has assigned the columns of the analysis (32, 38-42)
\* to self.df: they are two objects, and the caller's is as it was
caller_frame_after(caller_frame, analysed) == caller_frame

InitWith(inputs, second) ==
    /\ csv = NoFile
    /\ df = None
    /\ pc = "idle"
    /\ valid = FALSE
    /\ err = ""
    /\ clean = None
    /\ call = ""
    /\ raw = None
    /\ applied = <<>>
    /\ \E input \in inputs :
         /\ caller_df = input[1][1]
         /\ options_arg = input[1][2]
         /\ config = input[2]
         /\ available = input[3]
    /\ self_df = None
    /\ options = NoOptions
    /\ aspect_matches = <<>>
    /\ segment_matches = <<>>
    /\ negative_keyword_counts = <<>>
    /\ tie_order = Unsorted
    /\ advanced_run = NoRun
    /\ previous = NoResult
    /\ result = NoResult
    /\ log = <<>>
    /\ other = second
    /\ main_result = NotRun

InitAnalyzer == InitWith(AnalyzerInputs, NoAnalyzer)

\* analysis.py 22-28, with _preprocess_for_analysis and
\* _precompute_keyword_matches; the caller builds its first analyzer, or
\* another one from the same records after a full analysis
ReviewAnalyzer_init ==
    /\ self_df = None \/ result.op = "analyze_all"
    /\ log' = ConstructorSteps
    /\ LET opts == IF options_arg = NoOptions THEN config ELSE options_arg
           d == _preprocess_for_analysis(caller_df, opts.sentiment_thresholds)
       IN  /\ options' = opts
           /\ self_df' = d
           /\ caller_df' = caller_frame_after(caller_df, d)
           /\ aspect_matches' = keyword_matches(d, ASPECT_KEYWORDS)
           /\ segment_matches' = keyword_matches(d, SEGMENT_RULES)
           /\ negative_keyword_counts' =
                  negative_keyword_counter(d, opts.sentiment_thresholds)
    /\ UNCHANGED <<loaderVars, callerVars, config, available, options_arg,
                   tie_order, advanced_run, previous, result>>

\* Mutant: the call uses up the keyword counts it has read
Returns_consuming_counts(value) ==
    /\ self_df # None
    /\ result' = value
    /\ log' = Append(ConstructorSteps, value.op)
    /\ negative_keyword_counts' = <<>>
    /\ UNCHANGED <<loaderVars, callerVars, config, available, caller_df,
                   options_arg, self_df, options, aspect_matches, segment_matches,
                   tie_order, advanced_run, previous>>

\* An analysis method that reads self.df and the precomputed members and
\* assigns to none of them (analysis.py 79-303)
Returns(value) ==
    /\ self_df # None
    /\ result' = value
    /\ log' = Append(ConstructorSteps, value.op)
    /\ UNCHANGED <<loaderVars, callerVars, config, available, caller_df,
                   options_arg, self_df, options, aspect_matches, segment_matches,
                   negative_keyword_counts, tie_order, advanced_run, previous>>

calculate_sentiment_distribution ==
    Returns(_calculate_sentiment_distribution(self_df))

calculate_kpis ==
    Returns(calculate_kpis_result(self_df))

analyze_aspects ==
    Returns(analyze_aspects_result(self_df, aspect_matches))

analyze_trends ==
    Returns([op |-> "analyze_trends", trends |-> analyze_trends_result(self_df)])

analyze_sentiment ==
    Returns([op |-> "analyze_sentiment",
             sentiment |-> analyze_sentiment_result(self_df)])

analyze_segments ==
    Returns([op |-> "analyze_segments",
             segments |-> analyze_segments_result(self_df, segment_matches)])

call_extract_negative_keywords ==
    Returns([op |-> "extract_negative_keywords",
             top_keywords |-> extract_negative_keywords(negative_keyword_counts, config)])

\* the rows calculate_priority_scores hands to sort_values
PriorityRows ==
    priority_scores(analyze_aspects_result(self_df, aspect_matches).aspect_summary,
                    Len(self_df.rows), options.priority_score_weight)

\* analysis.py 305-340: sort_values on the frame built from an empty list, which
\* has no column to sort by, raises KeyError
calculate_priority_scores ==
    /\ self_df # None
    /\ log' = Append(ConstructorSteps, "calculate_priority_scores")
    /\ IF PriorityRows = <<>>
       THEN /\ result' = [op |-> "calculate_priority_scores", raised |-> "KeyError"]
            /\ UNCHANGED tie_order
       ELSE \E ranking \in sort_values_on_build(PriorityRows, tie_order) :
              /\ result' = [op |-> "calculate_priority_scores", ranking |-> ranking]
              /\ tie_order' = [known |-> TRUE, ranking |-> ranking]
    /\ UNCHANGED <<loaderVars, callerVars, config, available, caller_df,
                   options_arg, self_df, options, aspect_matches, segment_matches,
                   negative_keyword_counts, advanced_run, previous>>

\* analysis.py 342-386.  calculate_kpis (347) and calculate_priority_scores
\* (353) may raise, which ends the call; the advanced analyzer reads its
\* flags from the module-level options (advanced_analysis.py 51).
analyze_all ==
    /\ self_df # None
    /\ previous' = IF result.op = "analyze_all" THEN result ELSE previous
    /\ log' = ConstructorSteps \o
                calls_started("raised" \in DOMAIN calculate_kpis_result(self_df),
                        PriorityRows = <<>>, options.enable_advanced_analysis)
    /\ IF calculate_kpis_result(self_df).op = "calculate_kpis"
          /\ "raised" \in DOMAIN calculate_kpis_result(self_df)
       THEN /\ result' = [op |-> "analyze_all", raised |-> "ValueError"]
            /\ UNCHANGED <<tie_order, advanced_run>>
       ELSE IF PriorityRows = <<>>
       THEN /\ result' = [op |-> "analyze_all", raised |-> "KeyError"]
            /\ UNCHANGED <<tie_order, advanced_run>>
       ELSE \E ranking \in sort_values_on_build(PriorityRows, tie_order) :
              LET sections == summary(self_df, options, config, aspect_matches,
                                      segment_matches, negative_keyword_counts,
                                      ranking)
                  run == run_advanced_analysis(self_df, config.advanced_analysis,
                                               available)
              IN  /\ result' = analyze_all_result(sections, options, run)
                  /\ tie_order' = [known |-> TRUE, ranking |-> ranking]
                  /\ advanced_run' = IF options.enable_advanced_analysis
                                     THEN run ELSE advanced_run
    /\ UNCHANGED <<loaderVars, callerVars, config, available, caller_df, options_arg,
                   self_df, options, aspect_matches, segment_matches,
                   negative_keyword_counts>>

Next ==
    \/ ReviewAnalyzer_init
    \/ calculate_sentiment_distribution
    \/ calculate_kpis
    \/ analyze_aspects
    \/ analyze_trends
    \/ analyze_sentiment
    \/ analyze_segments
    \/ call_extract_negative_keywords
    \/ calculate_priority_scores
    \/ analyze_all

Spec == InitAnalyzer /\ [][Next]_vars

(***************************************************************************)
(* Two analyzers built from one record set, their calls interleaved.       *)
(***************************************************************************)
\* The members of the analyzer the caller is working with
Members ==
    [self_df |-> self_df, options |-> options, aspect_matches |-> aspect_matches,
     segment_matches |-> segment_matches,
     negative_keyword_counts |-> negative_keyword_counts,
     log |-> log, result |-> result]

\* A second analyzer that is not constructed yet
Unconstructed ==
    [self_df |-> None, options |-> NoOptions, aspect_matches |-> <<>>,
     segment_matches |-> <<>>, negative_keyword_counts |-> <<>>,
     log |-> <<>>, result |-> NoResult]

\* The caller turns to its other analyzer: the next call is made on that one
switch ==
    /\ other # NoAnalyzer
    /\ other' = Members
    /\ self_df' = other.self_df
    /\ options' = other.options
    /\ aspect_matches' = other.aspect_matches
    /\ segment_matches' = other.segment_matches
    /\ negative_keyword_counts' = other.negative_keyword_counts
    /\ log' = other.log
    /\ result' = other.result
    /\ UNCHANGED <<loaderVars, main_result, config, available, caller_df,
                   options_arg, tie_order, advanced_run, previous>>

\* record sets with a tie in the ranking, with two years, without a record
TwoInputs ==
    (({ThreeStaff, Frame(<<Review(12, Staff), Review(12, Clean)>>), Frame(<<>>)}
         \X {NoOptions, WithThresholds(3, 9)})
       \X {ANALYSIS_OPTIONS} \X {[shap |-> TRUE, ruptures |-> TRUE]})
    \cup (({Redated(FiveAlike, 2)} \X {NoOptions})
            \X {WithAdvanced(TRUE, AllOn)} \X {[shap |-> FALSE, ruptures |-> TRUE]})

InitTwo == InitWith(TwoInputs, Unconstructed)

NextTwo == Next \/ switch

SpecTwo == InitTwo /\ [][NextTwo]_vars

(***************************************************************************)
(* Claims about the analyzer (checked under Spec).                         *)
(***************************************************************************)
Constructed == self_df # None

Low == options.sentiment_thresholds.negative

High == options.sentiment_thresholds.positive

\* C1: with low < high every rating gets exactly one label: Positive iff
\* r >= high, Negative iff r <= low, Neutral iff low < r < high.
C1_LabelsPartitionRatings ==
    Constructed /\ Low < High =>
        \A i \in DOMAIN self_df.rows :
            LET r == self_df.rows[i]["rating"]
                label == self_df.rows[i]["sentiment"]
            IN  /\ label \in {"Positive", "Negative", "Neutral"}
                /\ label = "Positive" <=> r >= High
                /\ label = "Negative" <=> r <= Low
                /\ label = "Neutral" <=> (Low < r /\ r < High)

\* Ratings on both thresholds and strictly between them have been labelled
C1_Witness ==
    /\ Constructed
    /\ Low < High
    /\ \E i, j, k \in DOMAIN self_df.rows :
         /\ self_df.rows[i]["rating"] = Low
         /\ self_df.rows[j]["rating"] = High
         /\ self_df.rows[k]["sentiment"] = "Neutral"

IsExampleRatings ==
    /\ caller_df = ExampleRatings
    /\ Constructed
    /\ Low = 6 * Scale
    /\ High = 8 * Scale
    /\ result.op = "_calculate_sentiment_distribution"

\* C2 as stated: ratings [9,9,9,3,3,6] with thresholds (6, 8) give Positive 3,
\* Negative 2, Neutral 1 and positive_ratio 0.5.
C2_ExampleAsStated ==
    IsExampleRatings =>
        /\ result.positive_count = 3
        /\ result.negative_count = 2
        /\ result.neutral_count = 1
        /\ 2 * result.positive_ratio.num = result.positive_ratio.den

\* C2 as amended: the rating 6 is <= low, so it is Negative: Positive 3,
\* Negative 3, Neutral 0, positive_ratio 0.5.
C2_ExampleAmended ==
    IsExampleRatings =>
        /\ result.positive_count = 3
        /\ result.negative_count = 3
        /\ result.neutral_count = 0
        /\ 2 * result.positive_ratio.num = result.positive_ratio.den

C2_Witness == IsExampleRatings /\ options_arg = NoOptions

\* The canonical text of a record contains the keyword
TextHas(row, keyword) ==
    LET text == row["title"] \o <<" ">> \o row["body"] \o <<" ">> \o row["evaluation"]
    IN  \E p \in 0..(Len(text) - Len(keyword)) :
            \A j \in 1..Len(keyword) : text[p + j] = keyword[j]

Belongs(row, lexicon, n) ==
    \E k \in DOMAIN lexicon[n].keywords : TextHas(row, lexicon[n].keywords[k])

\* C7: the membership flag of a record for an aspect or segment is true iff
\* the record's canonical text (title, body, short evaluation) contains one
\* of the category's trigger substrings; a record may belong to several
\* categories.  With the lexicon {clean: [clean, dirty]}, "very clean room"
\* matches and "nothing relevant" does not.
C7_MembershipIffTrigger ==
    /\ Constructed =>
         /\ \A n \in DOMAIN ASPECT_KEYWORDS : \A i \in DOMAIN self_df.rows :
              aspect_matches[ASPECT_KEYWORDS[n].name][i]
                  <=> Belongs(caller_df.rows[i], ASPECT_KEYWORDS, n)
         /\ \A n \in DOMAIN SEGMENT_RULES : \A i \in DOMAIN self_df.rows :
              segment_matches[SEGMENT_RULES[n].name][i]
                  <=> Belongs(caller_df.rows[i], SEGMENT_RULES, n)
    /\ LET clean_words == <<<<"c", "l", "e", "a", "n">>, <<"d", "i", "r", "t", "y">>>>
       IN  /\ any_keyword_in(clean_words,
                <<"v", "e", "r", "y", " ", "c", "l", "e", "a", "n", " ", "r", "o", "o", "m">>)
           /\ ~any_keyword_in(clean_words,
                <<"n", "o", "t", "h", "i", "n", "g", " ", "r", "e", "l", "e", "v", "a", "n", "t">>)

\* One record in two aspects and a segment-only record, one record in no
\* category, and one whose title ends and body starts a trigger
C7_Witness ==
    /\ Constructed
    /\ \E i \in DOMAIN self_df.rows :
         /\ aspect_matches["cheonggyeol"][i]
         /\ aspect_matches["jikwoneungdae"][i]
    /\ \E i \in DOMAIN self_df.rows :
         /\ \A n \in DOMAIN ASPECT_KEYWORDS : ~aspect_matches[ASPECT_KEYWORDS[n].name][i]
         /\ \A n \in DOMAIN SEGMENT_RULES : ~segment_matches[SEGMENT_RULES[n].name][i]
    /\ \E i \in DOMAIN self_df.rows :
         /\ self_df.rows[i]["title"] = <<"cheong">>
         /\ self_df.rows[i]["body"] = <<"gyeol">>

MatchCount(name) == Cardinality({i \in DOMAIN self_df.rows : aspect_matches[name][i]})

RowsFor(rows, name) == {i \in DOMAIN rows : rows[i].Aspect = name}

HasRanking == result.op = "calculate_priority_scores" /\ "ranking" \in DOMAIN result

\* C8: an aspect without a matching record has no row in the priority
\* ranking, and the aspect detail and summary still report it with count 0,
\* ratios 0 and mean 0; an aspect with a match has exactly one ranking row.
C8_ZeroMatchAspects ==
    \A name \in Names(ASPECT_KEYWORDS) :
        /\ HasRanking =>
             Cardinality(RowsFor(result.ranking, name))
                 = (IF MatchCount(name) = 0 THEN 0 ELSE 1)
        /\ result.op = "analyze_aspects" =>
             /\ name \in DOMAIN result.aspect_detail
             /\ Cardinality(RowsFor(result.aspect_summary, name)) = 1
             /\ result.aspect_detail[name].matched_count = MatchCount(name)
             /\ \A i \in RowsFor(result.aspect_summary, name) :
                  result.aspect_summary[i].matched_count = MatchCount(name)
             /\ MatchCount(name) = 0 =>
                  /\ result.aspect_detail[name]
                       = [matched_count |-> 0, positive_count |-> 0,
                          negative_count |-> 0, neutral_count |-> 0,
                          positive_ratio |-> 0, negative_ratio |-> 0,
                          neutral_ratio |-> 0, mean_rating |-> 0]
                  /\ \A i \in RowsFor(result.aspect_summary, name) :
                       /\ result.aspect_summary[i].positive_ratio = 0
                       /\ result.aspect_summary[i].negative_ratio = 0
                       /\ result.aspect_summary[i].neutral_ratio = 0
                       /\ result.aspect_summary[i].mean_rating = 0

\* A ranking with two rows, returned while other aspects have no match
C8_Witness ==
    /\ HasRanking
    /\ Len(result.ranking) = 2
    /\ \E name \in Names(ASPECT_KEYWORDS) : MatchCount(name) = 0

NegativeCount(name) ==
    Cardinality({i \in DOMAIN self_df.rows :
        aspect_matches[name][i] /\ self_df.rows[i]["sentiment"] = "Negative"})

Weights == options.priority_score_weight

Abs(x) == IF x < 0 THEN -x ELSE x

\* C9 as stated: priority_score = 100 * (w_negative * negative_count /
\* aspect_count + w_frequency * aspect_count / total_count), here up to the
\* two decimals the score is reported with.  Scores are in hundredths and
\* weights in hundredths, and both sides are multiplied by aspect_count *
\* total_count.
C9_ScoreAsStated ==
    HasRanking =>
        \A i \in DOMAIN result.ranking :
            LET name == result.ranking[i].Aspect
                cnt == MatchCount(name)
                total == Len(self_df.rows)
                exact == 100 * (Weights.negative_ratio * NegativeCount(name) * total
                                  + Weights.mention_frequency * cnt * cnt)
            IN  2 * Abs(result.ranking[i].priority_score * cnt * total - exact)
                    <= cnt * total

\* C9 as amended: the negative ratio enters the score as the percentage
\* rounded to one decimal that the aspect summary reports, and the score is
\* rounded to two decimals; negative ratio 40%, mention frequency 20% and
\* weights (0.7, 0.3) give 34.0.
C9_ScoreFromRoundedRatio ==
    HasRanking =>
        /\ \A i \in DOMAIN result.ranking :
             LET name == result.ranking[i].Aspect
                 cnt == MatchCount(name)
                 total == Len(self_df.rows)
                 tenths == RoundDiv(1000 * NegativeCount(name), cnt)
             IN  result.ranking[i].priority_score
                    = RoundDiv(Weights.negative_ratio * tenths * total
                                 + Weights.mention_frequency * 1000 * cnt,
                               10 * total)
        /\ caller_df = ExampleAspect /\ Weights = [negative_ratio |-> 70, mention_frequency |-> 30]
             => /\ result.ranking[1].negative_ratio = 400
                /\ result.ranking[1].mention_frequency = 200
                /\ result.ranking[1].priority_score = 3400

\* A ranked aspect whose negative ratio is not a whole number of tenths of a
\* percent (1 of 3)
C9_Witness ==
    /\ HasRanking
    /\ \E i \in DOMAIN result.ranking :
         /\ result.ranking[i].matched_count = 3
         /\ result.ranking[i].negative_ratio = 333

DeclarationIndex(name) ==
    CHOOSE n \in DOMAIN ASPECT_KEYWORDS : ASPECT_KEYWORDS[n].name = name

\* C10: the ranking is sorted by priority_score in non-increasing order, and
\* aspects with equal priority_score appear in the order in which the aspect
\* lexicon declares them.
C10_SortedWithStableTies ==
    HasRanking =>
        \A i, j \in DOMAIN result.ranking :
            i < j =>
                /\ result.ranking[i].priority_score >= result.ranking[j].priority_score
                /\ result.ranking[i].priority_score = result.ranking[j].priority_score
                     => DeclarationIndex(result.ranking[i].Aspect)
                          < DeclarationIndex(result.ranking[j].Aspect)

\* What holds of the code: the ranking is sorted in non-increasing order
C10_SortedDescending ==
    HasRanking =>
        \A i, j \in DOMAIN result.ranking :
            i < j => result.ranking[i].priority_score >= result.ranking[j].priority_score

\* C11: with an empty record set the KPI and the sentiment-ratio computation
\* fail with EmptyDatasetError; they never divide by zero and never return
\* ratios.
C11_EmptyDatasetError ==
    /\ Constructed
    /\ self_df.rows = <<>>
    /\ result.op \in {"calculate_kpis", "_calculate_sentiment_distribution"}
    => /\ "raised" \in DOMAIN result
       /\ result.raised = "EmptyDatasetError"

\* analyze_all returned a bundle after the advanced analyzer was run
AdvancedRan ==
    /\ result.op = "analyze_all"
    /\ options.enable_advanced_analysis
    /\ advanced_run # NoRun

\* the sub-analyses switched on for this run, in the options of the run and in
\* the module-level options alike
Wanted ==
    {k \in DOMAIN SubAnalyses :
        /\ Enabled(k, options.advanced_analysis)
        /\ Enabled(k, config.advanced_analysis)}

Sound(k) == SubAnalysis(k, self_df, available).kind # "raised"

\* C12: with several advanced sub-analyses enabled, an exception in one does
\* not abort the others: every other enabled sub-analysis still runs and has
\* its result in the advanced section of the returned bundle.
C12_FailureDoesNotAbortOthers ==
    AdvancedRan /\ "advanced" \in DOMAIN result =>
        \A k \in Wanted :
            Sound(k) =>
                /\ SubAnalyses[k] \in advanced_run.ran
                /\ SubAnalyses[k] \in DOMAIN result.advanced.results

\* C13: a failure inside the advanced analyzer never makes analyze_all fail;
\* analyze_all still returns the bundle with the KPI, trend, sentiment, aspect,
\* segment, negative-keyword and priority sections as computed before the
\* advanced step.
C13_AdvancedFailureContained ==
    AdvancedRan /\ advanced_run.kind = "raised" =>
        /\ "raised" \notin DOMAIN result
        /\ "summary" \in DOMAIN result
        /\ result.summary.priority.all \in sort_values(PriorityRows)
        /\ result.summary =
             summary(self_df, options, config, aspect_matches, segment_matches,
                     negative_keyword_counts, result.summary.priority.all)

\* A sub-analysis raised and analyze_all returned its bundle
C13_Witness ==
    /\ AdvancedRan
    /\ advanced_run.kind = "raised"
    /\ "summary" \in DOMAIN result
    /\ result.summary.KPI.total = Len(self_df.rows)
    /\ result.advanced.present

\* C14: the advanced section is produced iff advanced analysis is enabled in
\* the options given to the run, and within it each of rating prediction,
\* topic modeling and change-point detection is run iff its own flag is true
\* in those same options.  Stated for the runs in which no sub-analysis raises.
C14_FlagsOfTheRun ==
    result.op = "analyze_all" /\ "summary" \in DOMAIN result =>
        /\ result.advanced.present <=> options.enable_advanced_analysis
        /\ result.advanced.present /\ advanced_run.kind = "returned" =>
              \A k \in DOMAIN SubAnalyses :
                  SubAnalyses[k] \in DOMAIN result.advanced.results
                      <=> Enabled(k, options.advanced_analysis)

\* C15: change-point detection over records of fewer than 2 distinct years
\* returns an empty list of change points and raises no error.
C15_OneYearNoError ==
    /\ AdvancedRan
    /\ available.ruptures
    /\ Cardinality(Years(self_df)) < 2
    /\ "change_point_detection" \in advanced_run.ran
    => /\ advanced_run.kind = "returned"
       /\ result.advanced.results["change_point_detection"].change_points = <<>>

\* where sub-analysis k is after the run
Landing(k) ==
    IF SubAnalyses[k] \notin advanced_run.ran THEN "Idle"
    ELSE IF ~Sound(k) THEN "Failed"
    ELSE IF SubAnalysis(k, self_df, available) = EmptyDict THEN "Skipped"
    ELSE "Succeeded"

\* what the bundle tells of the run: its advanced section holds the results, or
\* is {} after an exception (analysis.py 378, 383)
Aggregate == IF advanced_run.kind = "raised" THEN "Failed" ELSE "Succeeded"

\* C16: after an advanced run every enabled sub-analysis is in exactly one of
\* Succeeded, Skipped and Failed, and the aggregate state is PartiallyFailed
\* iff at least one sub-analysis failed while at least one succeeded.
C16_EverySubAnalysisLands ==
    AdvancedRan =>
        LET enabled == {k \in DOMAIN SubAnalyses : Enabled(k, config.advanced_analysis)}
        IN  /\ \A k \in enabled : Landing(k) \in {"Succeeded", "Skipped", "Failed"}
            /\ Aggregate = "PartiallyFailed"
                 <=> /\ \E k \in enabled : Landing(k) = "Failed"
                     /\ \E k \in enabled : Landing(k) = "Succeeded"

\* C17: an absent optional library is a skip: without ruptures change-point
\* detection returns an empty result and does not raise, without shap rating
\* prediction returns the three fitted models and no attribution entry, and
\* the results of the other sub-analyses are what they are with the library.
C17_AbsentLibraryIsSkip ==
    AdvancedRan =>
        /\ ~available.ruptures /\ advanced_run.ran = {"change_point_detection"} =>
              /\ advanced_run.kind = "returned"
              /\ result.advanced.results["change_point_detection"] = EmptyDict
        /\ ~available.ruptures /\ Landing(3) # "Idle" => Landing(3) = "Skipped"
        /\ advanced_run.kind = "returned" =>
              \A name \in DOMAIN result.advanced.results :
                  /\ name = "rating_prediction" /\ ~available.shap =>
                        result.advanced.results[name].keys =
                            {"Linear Regression", "Ridge Regression", "Random Forest"}
                  /\ name = "rating_prediction" =>
                        result.advanced.results[name] =
                            train_rating_prediction_models(self_df, available.shap)
                  /\ name = "topic_modeling" =>
                        result.advanced.results[name] = perform_topic_modeling(self_df)
                  /\ name = "change_point_detection" /\ available.ruptures =>
                        result.advanced.results[name] = detect_change_points(self_df, TRUE)

\* Neither library is there; rating prediction and change-point detection ran
C17_Witness ==
    /\ AdvancedRan
    /\ ~available.ruptures
    /\ ~available.shap
    /\ advanced_run.kind = "returned"
    /\ {"rating_prediction", "change_point_detection"} \subseteq DOMAIN result.advanced.results

\* the records labelled Negative
LabelledNegative ==
    SelectSeq(self_df.rows, LAMBDA row : row["sentiment"] = "Negative")

\* the counts are those of the keywords in the texts of the records labelled
\* Negative, in the counter and as extract_negative_keywords reports them
CountedOverNegativeLabels ==
    /\ negative_keyword_counts = count_keywords(LabelledNegative)
    /\ result.op = "extract_negative_keywords" =>
          result.top_keywords =
              most_common(count_keywords(LabelledNegative), config.top_negative_keywords)

\* C18 as stated: the negative-keyword counts are taken only over the records
\* labelled Negative, for every threshold configuration.
C18_AsStated == Constructed => CountedOverNegativeLabels

\* C18: for thresholds with low < high the negative-keyword counts are taken
\* only over the records labelled Negative: each reported count is the number
\* of occurrences of the keyword in their canonical texts.
C18_CountsOverNegativeLabels == Constructed /\ Low < High => CountedOverNegativeLabels

\* a record that is not labelled Negative holds a negative keyword, another
\* that is labelled Negative is counted, and the counts were reported
C18_Witness ==
    /\ Constructed
    /\ Low < High
    /\ result.op = "extract_negative_keywords"
    /\ result.top_keywords # <<>>
    /\ \E i \in DOMAIN self_df.rows :
         /\ self_df.rows[i]["sentiment"] # "Negative"
         /\ count_keywords(<<self_df.rows[i]>>) # <<>>

Sections == {"KPI", "sentiment", "aspects", "segments", "negative_keywords", "priority"}

C30_CountsConserved ==
    /\ result.op = "_calculate_sentiment_distribution" /\ "raised" \notin DOMAIN result =>
          /\ result.positive_count + result.negative_count + result.neutral_count
               = Len(self_df.rows)
          /\ result.positive_ratio = [num |-> result.positive_count, den |-> Len(self_df.rows)]
          /\ result.negative_ratio = [num |-> result.negative_count, den |-> Len(self_df.rows)]
          /\ result.neutral_ratio = [num |-> result.neutral_count, den |-> Len(self_df.rows)]
          /\ result.positive_ratio.num + result.negative_ratio.num
               + result.neutral_ratio.num = Len(self_df.rows)
    /\ result.op = "analyze_aspects" =>
          \A name \in DOMAIN result.aspect_detail :
              LET r == result.aspect_detail[name]
              IN  /\ r.positive_count + r.negative_count + r.neutral_count = r.matched_count
                  /\ 0 <= r.matched_count
                  /\ r.matched_count <= Len(self_df.rows)

\* an aspect matches some records and not all, with positive and negative ones
C30_Witness ==
    /\ result.op = "analyze_aspects"
    /\ \E name \in DOMAIN result.aspect_detail :
         /\ result.aspect_detail[name].matched_count < Len(self_df.rows)
         /\ result.aspect_detail[name].positive_count > 0
         /\ result.aspect_detail[name].negative_count > 0

\* C28: when no aspect matches any record calculate_priority_scores returns an
\* empty ranking without raising and analyze_all completes with an empty top-3
\* list; the top-3 list is the first min(3, length) rows of the ranking.
C28_EmptyRankingNoError ==
    /\ result.op = "calculate_priority_scores" /\ PriorityRows = <<>> =>
          /\ "ranking" \in DOMAIN result
          /\ result.ranking = <<>>
    /\ result.op = "analyze_all" /\ MaxDate(self_df) # NaT /\ PriorityRows = <<>> =>
          /\ "summary" \in DOMAIN result
          /\ result.summary.priority.top_3 = <<>>
    /\ result.op = "analyze_all" /\ "summary" \in DOMAIN result =>
          result.summary.priority.top_3 =
              [i \in 1..(IF Len(result.summary.priority.all) < 3
                         THEN Len(result.summary.priority.all) ELSE 3) |->
                  result.summary.priority.all[i]]

\* C23: the negative-keyword list of the bundle holds at most N entries, N
\* being top_negative_keywords of the options given to the analyzer; the
\* entries are in non-increasing order of count, each count is positive and
\* no keyword appears twice.
C23_TopNOfTheRun ==
    result.op = "analyze_all" /\ "summary" \in DOMAIN result =>
        LET top_keywords == result.summary.negative_keywords
        IN  /\ Len(top_keywords) <= options.top_negative_keywords
            /\ \A i, j \in DOMAIN top_keywords :
                 i < j => /\ top_keywords[i].count >= top_keywords[j].count
                          /\ top_keywords[i].keyword # top_keywords[j].keyword
            /\ \A i \in DOMAIN top_keywords : top_keywords[i].count > 0

\* C25: records whose 작성일자 could not be parsed are kept with a null date,
\* and calculate_kpis succeeds on every non-empty record set however many of
\* its dates are null: such records count toward the total and the sentiment
\* counts.
C25_KpisWithNullDates ==
    /\ Constructed
    /\ self_df.rows # <<>>
    /\ result.op = "calculate_kpis"
    => /\ "raised" \notin DOMAIN result
       /\ result.total = Len(self_df.rows)
       /\ result.sentiment.positive_count + result.sentiment.negative_count
            + result.sentiment.neutral_count = Len(self_df.rows)


(***************************************************************************)
(* The record set get_clean_data hands out (checked under SpecLoader).     *)
(***************************************************************************)
\* load.py 175-176 with 61-75: the steps of one validated, complete
\* preprocessing, in the order get_clean_data runs them on a fresh loader
CleanPipeline ==
    <<"validate_schema", "_preprocess_ratings", "_preprocess_dates",
      "_handle_missing_values", "_handle_outliers", "_clean_text_data">>

GetCleanDataReturned ==
    call = "get_clean_data" /\ pc = "idle" /\ err = "" /\ clean # None

\* C27: whatever DataLoader operations came before, the record set that
\* get_clean_data returns has been schema-validated and preprocessed in full,
\* exactly once.
C27_ReturnedSetIsClean == GetCleanDataReturned => applied = CleanPipeline


(***************************************************************************)
(* The members computed at construction (checked under Spec).              *)
(***************************************************************************)
Precomputed == <<self_df, aspect_matches, segment_matches, negative_keyword_counts>>

\* What the constructor computes from the caller's records (analysis.py 27-77)
AsConstructed ==
    LET d == _preprocess_for_analysis(caller_df, options.sentiment_thresholds)
    IN  Precomputed = <<d, keyword_matches(d, ASPECT_KEYWORDS),
                        keyword_matches(d, SEGMENT_RULES),
                        negative_keyword_counter(d, options.sentiment_thresholds)>>

\* C22: once the analyzer is constructed, no step of any analysis operation, in
\* any order and any number of times, changes the membership masks, the
\* sentiment labels, the negative-keyword counts or the analyzer's record set.
C22_PrecomputedOnceAndKept == [][Constructed => UNCHANGED Precomputed]_vars

\* analyze_segments has run after a ranking, on an analyzer with a matching
\* record and a counted keyword
C22_Witness ==
    /\ result.op = "analyze_segments"
    /\ tie_order.known
    /\ \E name \in DOMAIN aspect_matches :
          \E i \in DOMAIN aspect_matches[name] : aspect_matches[name][i]
    /\ \E k \in DOMAIN negative_keyword_counts : negative_keyword_counts[k].count > 0


(***************************************************************************)
(* The order of the steps (checked under Spec).                            *)
(***************************************************************************)
Aggregation ==
    {"calculate_kpis", "analyze_trends", "analyze_sentiment", "analyze_aspects",
     "analyze_segments"}

\* The places of a step in the log
At(step) == {i \in DOMAIN log : log[i] = step}

\* Every step of `first` in the log stands before every step of `later`
Before(first, later) ==
    \A i \in DOMAIN log : \A j \in DOMAIN log :
        log[i] \in first /\ log[j] \in later => i < j

\* Once a step of `later` is in the log, every step of `first` is
Complete(first, later) ==
    (\E j \in DOMAIN log : log[j] \in later) => \A s \in first : At(s) # {}

\* The call made last was a run of the whole analysis
InRun == result.op = "analyze_all"

HasBundle == InRun /\ "summary" \in DOMAIN result

Environments ==
    [loading : {"", "FileNotFoundError"},
     plotting : {"", "Exception"},
     generate_report : {"", "Exception"},
     exporting : {"", "Exception"}]

\* load.py 154-169, called at load.py 184: strftime of the earliest date
\* raises ValueError when no record has a date
get_data_info(d) == IF MinDate(d) = NaT THEN "ValueError" ELSE ""

\* report.py 119-138, called by create_summary_report (101), which logs and
\* re-raises (115-117): the priority section is the dict of analysis.py
\* 367-370; its len is the number of its keys, and a dict has no head
_prepare_summary_data(analysis_results) ==
    IF "priority" \in DOMAIN analysis_results
          /\ Cardinality(DOMAIN analysis_results.priority) > 0
    THEN "AttributeError"
    ELSE ""

\* run.py 115-118: the same section, read with iloc
print_top_priority(analysis_results) ==
    IF "priority" \in DOMAIN analysis_results
          /\ Cardinality(DOMAIN analysis_results.priority) > 0
    THEN "AttributeError"
    ELSE ""

\* run.py 143-151: both handlers return 1
Exit(step, error, bundle) ==
    [run |-> TRUE, exit_code |-> IF error = "" THEN 0 ELSE 1,
     raised_in |-> step, error |-> error, analysis_results |-> bundle]

\* run.py 59-141: what main does with the bundle of the analysis
after_analysis(bundle, environment) ==
    IF "raised" \in DOMAIN bundle
    THEN Exit("analysis", bundle.raised, NoResult)
    ELSE IF environment.plotting # ""
    THEN Exit("plotting", environment.plotting, bundle)
    ELSE IF environment.generate_report # ""
    THEN Exit("report", environment.generate_report, bundle)
    ELSE IF _prepare_summary_data(bundle.summary) # ""
    THEN Exit("report", _prepare_summary_data(bundle.summary), bundle)
    ELSE IF environment.exporting # ""
    THEN Exit("export", environment.exporting, bundle)
    ELSE IF print_top_priority(bundle.summary) # ""
    THEN Exit("summary", print_top_priority(bundle.summary), bundle)
    ELSE Exit("", "", bundle)

\* run.py 33-151: load_and_preprocess_data (47) hands over the record set
\* caller_df; ReviewAnalyzer(df) takes the module-level options (54)
main ==
    /\ ~main_result.run
    /\ \E environment \in Environments :
         LET d == _preprocess_for_analysis(caller_df, config.sentiment_thresholds)
             aspects == keyword_matches(d, ASPECT_KEYWORDS)
             rows == priority_scores(analyze_aspects_result(d, aspects).aspect_summary,
                                     Len(d.rows), config.priority_score_weight)
         IN  IF environment.loading # ""
             THEN main_result' = Exit("loading", environment.loading, NoResult)
             ELSE IF get_data_info(caller_df) # ""
             THEN main_result' = Exit("loading", get_data_info(caller_df), NoResult)
             ELSE IF "raised" \in DOMAIN calculate_kpis_result(d)
             THEN main_result' = Exit("analysis", "ValueError", NoResult)
             ELSE IF rows = <<>>
             THEN main_result' = Exit("analysis", "KeyError", NoResult)
             ELSE \E ranking \in sort_values_on_build(rows, tie_order) :
                    main_result' =
                        after_analysis(
                            analyze_all_result(
                                summary(d, config, config, aspects,
                                        keyword_matches(d, SEGMENT_RULES),
                                        negative_keyword_counter(
                                            d, config.sentiment_thresholds),
                                        ranking),
                                config,
                                run_advanced_analysis(d, config.advanced_analysis,
                                                      available)),
                            environment)
    /\ UNCHANGED <<loaderVars, analyzerVars, other>>

InitMain == InitAnalyzer /\ options_arg = NoOptions

NextMain == main

SpecMain == InitMain /\ [][NextMain]_vars

(***************************************************************************)
(* Claims about main (checked under SpecMain).                             *)
(***************************************************************************)
MainSteps == {"loading", "analysis", "plotting", "report", "export"}

MainReturned == main_result.run

\* C29: main returns 0 when loading, analysis, plotting, report generation and
\* export raise nothing, returns 1 only when one of them raised, and the final
\* summary step, given the bundle of the run, raises nothing.
C29_ExitCodeTellsFailure ==
    MainReturned =>
        /\ main_result.raised_in \notin MainSteps => main_result.exit_code = 0
        /\ main_result.exit_code = 1 => main_result.raised_in \in MainSteps
        /\ "summary" \in DOMAIN main_result.analysis_results =>
              print_top_priority(main_result.analysis_results.summary) = ""


(***************************************************************************)
(* The reported change points (checked under Spec).                        *)
(***************************************************************************)
HasChangePoints ==
    /\ HasBundle
    /\ result.advanced.present
    /\ "change_point_detection" \in DOMAIN result.advanced.results
    /\ "change_points" \in DOMAIN result.advanced.results["change_point_detection"]

ChangePoints == result.advanced.results["change_point_detection"].change_points

\* The year with ratings that comes before year y in the record set
YearBefore(y) ==
    CHOOSE z \in Years(self_df) :
        z < y /\ \A w \in Years(self_df) : w < y => w <= z

\* The yearly mean at the breakpoint year y minus the mean of the year before,
\* times the positive product of the two counts
Rise(y) ==
    YearMean(self_df, y).sum * YearMean(self_df, YearBefore(y)).count
        - YearMean(self_df, YearBefore(y)).sum * YearMean(self_df, y).count

\* C26: every reported change point has change = rating_after - rating_before
\* of the yearly means immediately before and at the breakpoint, labelled
\* increase iff change > 0 and decrease iff change < 0.
C26_ChangeLabelledBySign ==
    HasChangePoints =>
        \A i \in DOMAIN ChangePoints :
            LET cp == ChangePoints[i]
                counts == YearMean(self_df, cp.year).count
                              * YearMean(self_df, YearBefore(cp.year)).count
            IN  /\ cp.change = RoundDiv(Rise(cp.year) * 100, counts * Scale)
                /\ cp.change_type = "increase" <=> Rise(cp.year) > 0
                /\ cp.change_type = "decrease" <=> Rise(cp.year) < 0


(***************************************************************************)
(* Two analyzers on one record set (checked under SpecTwo).                *)
(***************************************************************************)
\* What an analyzer holds that was built from the caller's records and is the
\* only one
LoneOptions == IF options_arg = NoOptions THEN config ELSE options_arg

LoneFrame == _preprocess_for_analysis(caller_df, LoneOptions.sentiment_thresholds)

LoneAspects == keyword_matches(LoneFrame, ASPECT_KEYWORDS)

LoneSegments == keyword_matches(LoneFrame, SEGMENT_RULES)

LoneCounts == negative_keyword_counter(LoneFrame, LoneOptions.sentiment_thresholds)

LoneRows ==
    priority_scores(analyze_aspects_result(LoneFrame, LoneAspects).aspect_summary,
                    Len(LoneFrame.rows), LoneOptions.priority_score_weight)

\* The bundles analyze_all of the lone analyzer can return
LoneBundles ==
    {analyze_all_result(
         summary(LoneFrame, LoneOptions, config, LoneAspects, LoneSegments,
                 LoneCounts, ranking),
         LoneOptions,
         run_advanced_analysis(LoneFrame, config.advanced_analysis, available)) :
       ranking \in sort_values(LoneRows)}

\* r is what the lone analyzer returns, or raises, from the call r names
IsLoneResult(r) ==
    CASE r.op = "none" -> TRUE
      [] r.op = "_calculate_sentiment_distribution" ->
            r = _calculate_sentiment_distribution(LoneFrame)
      [] r.op = "calculate_kpis" -> r = calculate_kpis_result(LoneFrame)
      [] r.op = "analyze_aspects" -> r = analyze_aspects_result(LoneFrame, LoneAspects)
      [] r.op = "analyze_trends" -> r.trends = analyze_trends_result(LoneFrame)
      [] r.op = "analyze_sentiment" -> r.sentiment = analyze_sentiment_result(LoneFrame)
      [] r.op = "analyze_segments" ->
            r.segments = analyze_segments_result(LoneFrame, LoneSegments)
      [] r.op = "extract_negative_keywords" ->
            r.top_keywords = extract_negative_keywords(LoneCounts, config)
      [] r.op = "calculate_priority_scores" ->
            IF LoneRows = <<>>
            THEN r = [op |-> "calculate_priority_scores", raised |-> "KeyError"]
            ELSE "ranking" \in DOMAIN r /\ r.ranking \in sort_values(LoneRows)
      [] r.op = "analyze_all" ->
            IF "raised" \in DOMAIN calculate_kpis_result(LoneFrame)
            THEN r = [op |-> "analyze_all", raised |-> "ValueError"]
            ELSE IF LoneRows = <<>>
            THEN r = [op |-> "analyze_all", raised |-> "KeyError"]
            ELSE r \in LoneBundles

\* C24: constructing an analyzer and running its operations never modifies
\* the caller's record set, and under any interleaving of the calls on two
\* analyzers built from it each result is what an analyzer running alone gives.
C24_RunsDoNotInterfere ==
    /\ [](IsLoneResult(result) /\ IsLoneResult(other.result))
    /\ [][caller_df' = caller_df]_vars

\* Both analyzers are constructed; one has returned a bundle and the other,
\* called in between, a ranking
C24_Witness ==
    /\ other # NoAnalyzer
    /\ self_df # None
    /\ other.self_df # None
    /\ result.op = "analyze_all"
    /\ "summary" \in DOMAIN result
    /\ other.result.op = "calculate_priority_scores"
    /\ "ranking" \in DOMAIN other.result

====
